---- MODULE Spec2Model ----
(***************************************************************************)
(* Phylustrator: tree layout (radial and vertical projections) and the     *)
(* overlays drawn on a laid-out tree.                                      *)
(*                                                                         *)
(* Numbers: the program computes in floating point; the model computes the *)
(* same expressions in exact rational arithmetic (a rational is a pair     *)
(* <<numerator, denominator>> in lowest terms with a positive              *)
(* denominator).  An attribute a node does not carry yet is the empty      *)
(* tuple.                                                                  *)
(*                                                                         *)
(* Trees: nodes are numbered 1..n in preorder, up[i] is the parent of i    *)
(* (0 for the root), the children of a node are ordered by number, and     *)
(* dist[i] is the edge length of i (ete3 nodes always carry dist).         *)
(***************************************************************************)
EXTENDS Integers, Sequences, FiniteSets, TLC

\* ------------------------------------------------------------------ bounds
MaxNodes == 5
MaxDist == 1
MaxCalls == 1

\* ------------------------------------------------------------- rationals
Unset == <<>>

Abs(i) == IF i < 0 THEN -i ELSE i

RECURSIVE Gcd(_, _)
Gcd(a, b) == IF b = 0 THEN a ELSE Gcd(b, a % b)

\* the value a division by zero would leave behind (Python raises)
DivError == <<0, 0>>

Norm(n, d) ==
    IF d = 0 THEN DivError
    ELSE LET g == Gcd(Abs(n), Abs(d))
             s == IF d < 0 THEN -1 ELSE 1
         IN  <<(s * n) \div g, (s * d) \div g>>

R(i) == <<i, 1>>
RAdd(x, y) == IF x = DivError \/ y = DivError THEN DivError
              ELSE Norm(x[1] * y[2] + y[1] * x[2], x[2] * y[2])
RSub(x, y) == IF x = DivError \/ y = DivError THEN DivError
              ELSE Norm(x[1] * y[2] - y[1] * x[2], x[2] * y[2])
RMul(x, y) == IF x = DivError \/ y = DivError THEN DivError
              ELSE Norm(x[1] * y[1], x[2] * y[2])
RDiv(x, y) == IF x = DivError \/ y = DivError THEN DivError
              ELSE Norm(x[1] * y[2], x[2] * y[1])
RLt(x, y) == x[1] * y[2] < y[1] * x[2]
RLe(x, y) == x[1] * y[2] <= y[1] * x[2]
RMax(x, y) == IF RLt(x, y) THEN y ELSE x

RECURSIVE RSum(_, _)
RSum(s, k) == IF k = 0 THEN R(0) ELSE RAdd(RSum(s, k - 1), s[k])

\* ------------------------------------------------------------------ trees
Nodes(t) == 1 .. t.n
IsRoot(t, n) == t.up[n] = 0
Children(t, n) == SelectSeq([i \in 1 .. t.n |-> i], LAMBDA i : t.up[i] = n)
IsLeaf(t, n) == \A i \in Nodes(t) : t.up[i] # n
Leaves(t) == SelectSeq([i \in 1 .. t.n |-> i], LAMBDA i : IsLeaf(t, i))
PreOrder(t) == [i \in 1 .. t.n |-> i]

RECURSIVE PostOrder(_, _)
RECURSIVE PostOrderSeq(_, _, _)
PostOrderSeq(t, ch, k) ==
    IF k > Len(ch) THEN <<>> ELSE PostOrder(t, ch[k]) \o PostOrderSeq(t, ch, k + 1)
PostOrder(t, n) == PostOrderSeq(t, Children(t, n), 1) \o <<n>>

RECURSIVE IsAncestorOrSelf(_, _, _)
IsAncestorOrSelf(up, a, n) ==
    n # 0 /\ (n = a \/ IsAncestorOrSelf(up, a, up[n]))

RECURSIVE LeavesUnder(_, _)
RECURSIVE LeavesUnderSeq(_, _, _)
LeavesUnderSeq(t, ch, k) ==
    IF k > Len(ch) THEN <<>> ELSE LeavesUnder(t, ch[k]) \o LeavesUnderSeq(t, ch, k + 1)
LeavesUnder(t, n) ==
    IF IsLeaf(t, n) THEN <<n>> ELSE LeavesUnderSeq(t, Children(t, n), 1)

\* every rooted ordered tree with n nodes, numbered in preorder
Shapes(n) ==
    {up \in [1 .. n -> 0 .. n - 1] :
        /\ up[1] = 0
        /\ \A i \in 2 .. n : up[i] >= 1 /\ up[i] < i
                             /\ IsAncestorOrSelf(up, up[i], i - 1)}

Dists == 0 .. MaxDist

Trees ==
    UNION {{[n |-> n, up |-> up, dist |-> dist] :
                up \in Shapes(n), dist \in [1 .. n -> Dists]} : n \in 1 .. MaxNodes}


\* ------------------------------------------------------------------ style
\* TreeStyle values the drawers read: canvas width and height, polar radius,
\* angular span (degrees) and the canvas margin of the vertical drawer.
Styles ==
    {[width |-> 400, height |-> 400, radius |-> 120, degrees |-> g, margin |-> 20,
      leaf_r |-> 5, node_r |-> 2] : g \in {180, 360}}

\* the drawer classes
Impls == {"radial", "vertical", "legacy_radial"}

\* max_width arguments of VerticalTreeDrawer._calculate_layout (<<>> is None)
MaxWidths == {<<>>, <<300>>}
\* right_margin arguments of VerticalTreeDrawer.draw
RightMargins == {0, 100}

\* -------------------------------------------------------- node attributes
Fields == {"dist_to_root", "rad", "angle", "y_coord", "coordinates"}
NoAttrs == [f \in Fields |-> Unset]
HasAttr(a, n, f) == a[n][f] # Unset

\* ----------------------------------------------------------- depth pass
\* a depth pass that starts the root at 0 whatever its edge length
DistToRootStemless(t, a, n) ==
    IF ~IsRoot(t, n) THEN RAdd(a[t.up[n]]["dist_to_root"], R(t.dist[n]))
    ELSE R(0)

\* a depth pass that forgets the parent's cumulative distance
DistToRootOwnEdge(t, a, n) == R(t.dist[n])

\* a depth pass that adds onto the value a previous pass left on the node
DistToRootAccumulating(t, a, n) ==
    IF ~IsRoot(t, n) THEN RAdd(a[t.up[n]]["dist_to_root"], R(t.dist[n]))
    ELSE IF HasAttr(a, n, "dist_to_root")
         THEN RAdd(a[n]["dist_to_root"], R(t.dist[n]))
         ELSE R(t.dist[n])

\* n.dist_to_root = n.up.dist_to_root + n.dist if not n.is_root()
\*                  else getattr(n, "dist", 0.0)
DistToRoot(t, a, n) ==
    IF ~IsRoot(t, n) THEN RAdd(a[t.up[n]]["dist_to_root"], R(t.dist[n]))
    ELSE R(t.dist[n])

\* for n in self.t.traverse("preorder"): n.dist_to_root = ...
RECURSIVE DistPass(_, _, _)
DistPass(t, a, i) ==
    IF i > t.n THEN a
    ELSE DistPass(t, [a EXCEPT ![i]["dist_to_root"] = DistToRoot(t, a, i)], i + 1)

\* a depth pass that keeps the last node's distance instead of the maximum
LastDistToRoot(a, k) == IF k = 0 THEN R(0) ELSE a[k]["dist_to_root"]

\* max_dist = 0.0; max_dist = max(max_dist, n.dist_to_root)
RECURSIVE MaxDistToRoot(_, _)
MaxDistToRoot(a, k) ==
    IF k = 0 THEN R(0) ELSE RMax(MaxDistToRoot(a, k - 1), a[k]["dist_to_root"])

\* a scale whose fallback for a tree without depth is 0
ScaleFactorZero(extent, max_dist) ==
    IF RLt(R(0), max_dist) THEN RDiv(extent, max_dist) ELSE R(0)

\* self.sf = extent / max_dist if max_dist > 0 else 1.0
ScaleFactor(extent, max_dist) ==
    IF RLt(R(0), max_dist) THEN RDiv(extent, max_dist) ELSE R(1)

\* drawing.py: self.sf = self.style.radius / total if total > 0 else 0
LegacyScaleFactor(extent, max_dist) ==
    IF RLt(R(0), max_dist) THEN RDiv(extent, max_dist) ELSE R(0)

\* ---------------------------------------------------------- spread pass
IndexOf(s, x) == CHOOSE i \in 1 .. Len(s) : s[i] = x
MaxInt(x, y) == IF x > y THEN x ELSE y

\* a step that divides the span by leaf count - 1
AngleStepMinusOne(span, nleaves) == RDiv(R(span), R(MaxInt(nleaves - 1, 1)))

\* angle_step = span / max(len(leaves), 1)
AngleStep(span, nleaves) == RDiv(R(span), R(MaxInt(nleaves, 1)))

\* a step that divides by len(leaves) - 1 whatever it is
YStepUnguarded(style, nleaves) ==
    RDiv(R(style.height - style.margin * 2), R(nleaves - 1))

\* y_step = (height - pad * 2) / max(len(leaves) - 1, 1)
YStep(style, nleaves) ==
    RDiv(R(style.height - style.margin * 2), R(MaxInt(nleaves - 1, 1)))

\* start_y = -height / 2 + pad
StartY(style) == RAdd(RDiv(R(-style.height), R(2)), R(style.margin))

\* a centering that averages over the descendant leaves
MeanOfLeaves(t, a, n, f) ==
    LET lv == LeavesUnder(t, n)
    IN  RDiv(RSum([k \in 1 .. Len(lv) |-> a[lv[k]][f]], Len(lv)), R(Len(lv)))

\* sum(c.<f> for c in n.children) / len(n.children)
MeanOfChildren(t, a, n, f) ==
    LET ch == Children(t, n)
    IN  RDiv(RSum([k \in 1 .. Len(ch) |-> a[ch[k]][f]], Len(ch)), R(Len(ch)))

\* radial.py: rad = dist_to_root * sf
Rad(dist, sf) == RMul(dist, sf)

\* vertical.py: x = root_x + dist_to_root * sf
DepthX(root_x, dist, sf) == RAdd(root_x, RMul(dist, sf))


\* ------------------------------------------------------ the layout passes
\* A drawer d is [attrs, sf, root_x, total_tree_depth, layout_calculated].

\* radial.py: for n in self.t.traverse(): n.rad = n.dist_to_root * self.sf
RadPass(t, a, sf) ==
    [n \in Nodes(t) |-> [a[n] EXCEPT !["rad"] = Rad(a[n]["dist_to_root"], sf)]]

\* radial.py: for i, leaf in enumerate(leaves): leaf.angle = i * angle_step
LeafAnglePass(t, a, step) ==
    LET lv == Leaves(t)
    IN  [n \in Nodes(t) |->
            IF IsLeaf(t, n)
            THEN [a[n] EXCEPT !["angle"] = RMul(R(IndexOf(lv, n) - 1), step)]
            ELSE a[n]]

\* radial.py: for n in postorder: if not n.is_leaf(): n.angle = mean (0.0 if childless)
RECURSIVE AngleCenterPass(_, _, _, _)
AngleCenterPass(t, a, po, k) ==
    IF k > Len(po) THEN a
    ELSE LET n == po[k]
         IN  IF IsLeaf(t, n) THEN AngleCenterPass(t, a, po, k + 1)
             ELSE AngleCenterPass(t,
                    [a EXCEPT ![n]["angle"] =
                        IF Len(Children(t, n)) > 0
                        THEN MeanOfChildren(t, a, n, "angle") ELSE R(0)],
                    po, k + 1)

\* RadialTreeDrawer._calculate_layout
RadialLayout(t, st, d) ==
    LET a1 == DistPass(t, d.attrs, 1)
        max_dist == MaxDistToRoot(a1, t.n)
        sf1 == ScaleFactor(R(st.radius), max_dist)
        a2 == RadPass(t, a1, sf1)
        a3 == LeafAnglePass(t, a2, AngleStep(st.degrees, Len(Leaves(t))))
        a4 == AngleCenterPass(t, a3, PostOrder(t, 1), 1)
    IN  [attrs |-> a4, sf |-> sf1, root_x |-> d.root_x,
         total_tree_depth |-> max_dist, layout_calculated |-> TRUE]

\* vertical.py: leaf.y_coord = start_y + i * y_step; leaf.coordinates = (x, y_coord)
LeafSlotPass(t, st, a, rx, sf1) ==
    LET lv == Leaves(t)
        step == YStep(st, Len(lv))
    IN  [n \in Nodes(t) |->
            IF IsLeaf(t, n)
            THEN LET y == RAdd(StartY(st), RMul(R(IndexOf(lv, n) - 1), step))
                 IN  [a[n] EXCEPT !["y_coord"] = y,
                                  !["coordinates"] =
                                      <<DepthX(rx, a[n]["dist_to_root"], sf1), y>>]
            ELSE a[n]]

\* a centering pass that leaves the internal nodes without coordinates
SlotCenterPassSkipped(t, a, rx, sf1, po, k) == a

\* vertical.py: for n in postorder: if not n.is_leaf(): n.y_coord = mean;
\*              n.coordinates = (root_x + dist_to_root * sf, n.y_coord)
RECURSIVE SlotCenterPass(_, _, _, _, _, _)
SlotCenterPass(t, a, rx, sf1, po, k) ==
    IF k > Len(po) THEN a
    ELSE LET n == po[k]
         IN  IF IsLeaf(t, n) THEN SlotCenterPass(t, a, rx, sf1, po, k + 1)
             ELSE LET y == MeanOfChildren(t, a, n, "y_coord")
                  IN  SlotCenterPass(t,
                        [a EXCEPT ![n]["y_coord"] = y,
                                  ![n]["coordinates"] =
                                      <<DepthX(rx, a[n]["dist_to_root"], sf1), y>>],
                        rx, sf1, po, k + 1)

\* target_w = max_width if max_width is not None else self.style.width
TargetWidth(st, mw) == IF mw # <<>> THEN mw[1] ELSE st.width

\* self.root_x = -self.style.width / 2 + pad
RootX(st) == RAdd(RDiv(R(-st.width), R(2)), R(st.margin))

\* VerticalTreeDrawer._calculate_layout(max_width)
VerticalLayout(t, st, d, mw) ==
    LET a1 == DistPass(t, d.attrs, 1)
        max_dist == MaxDistToRoot(a1, t.n)
        sf1 == ScaleFactor(R(TargetWidth(st, mw) - st.margin * 2), max_dist)
        rx == RootX(st)
        a2 == LeafSlotPass(t, st, a1, rx, sf1)
        a3 == SlotCenterPass(t, a2, rx, sf1, PostOrder(t, 1), 1)
    IN  [attrs |-> a3, sf |-> sf1, root_x |-> rx,
         total_tree_depth |-> max_dist, layout_calculated |-> TRUE]

\* drawing.py: c1, c2 = n.get_children(); n.angle = (c1.angle + c2.angle) / 2
\* the unpacking raises unless n has exactly two children: r.ok records it
RECURSIVE LegacyAnglePass(_, _, _, _)
LegacyAnglePass(t, a, po, k) ==
    IF k > Len(po) THEN [attrs |-> a, ok |-> TRUE]
    ELSE LET n == po[k]
             ch == Children(t, n)
         IN  IF IsLeaf(t, n) THEN LegacyAnglePass(t, a, po, k + 1)
             ELSE IF Len(ch) # 2 THEN [attrs |-> a, ok |-> FALSE]
             ELSE LegacyAnglePass(t,
                    [a EXCEPT ![n]["angle"] =
                        RDiv(RAdd(a[ch[1]]["angle"], a[ch[2]]["angle"]), R(2))],
                    po, k + 1)

\* drawing.py: n.add_feature("coordinates", (n.angle, n.dist_to_root * self.sf))
LegacyCoordPass(t, a, sf1) ==
    [n \in Nodes(t) |->
        [a[n] EXCEPT !["coordinates"] = <<a[n]["angle"], RMul(a[n]["dist_to_root"], sf1)>>]]

\* drawing.py RadialTreeDrawer._calculate_coordinates; ok = FALSE when it raised
LegacyRadialLayout(t, st, d) ==
    LET a1 == DistPass(t, d.attrs, 1)
        max_dist == MaxDistToRoot(a1, t.n)
        sf1 == LegacyScaleFactor(R(st.radius), max_dist)
        a2 == LeafAnglePass(t, a1, RDiv(R(st.degrees), R(Len(Leaves(t)))))
        r3 == LegacyAnglePass(t, a2, PostOrder(t, 1), 1)
    IN  [attrs |-> IF r3.ok THEN LegacyCoordPass(t, r3.attrs, sf1) ELSE r3.attrs,
         sf |-> sf1, root_x |-> d.root_x, total_tree_depth |-> max_dist,
         layout_calculated |-> d.layout_calculated, ok |-> r3.ok]

\* drawing.py VerticalTreeDrawer._calculate_coordinates: the leaves are spread
\* over height - 100 in steps of available_height / len(leaves)
LegacyLeafSlotPass(t, st, a) ==
    LET lv == Leaves(t)
        sf_y == RDiv(R(st.height - 100), R(Len(lv)))
        start_y == RAdd(RDiv(R(-st.height), R(2)), R(50))
    IN  [n \in Nodes(t) |->
            IF IsLeaf(t, n)
            THEN [a[n] EXCEPT !["y_coord"] =
                        RAdd(start_y, RMul(R(IndexOf(lv, n) - 1), sf_y))]
            ELSE a[n]]

\* drawing.py: mean_y = sum([c.y_coord for c in children]) / len(children)
RECURSIVE LegacySlotCenterPass(_, _, _, _)
LegacySlotCenterPass(t, a, po, k) ==
    IF k > Len(po) THEN a
    ELSE LET n == po[k]
         IN  IF IsLeaf(t, n) THEN LegacySlotCenterPass(t, a, po, k + 1)
             ELSE LegacySlotCenterPass(t,
                    [a EXCEPT ![n]["y_coord"] = MeanOfChildren(t, a, n, "y_coord")],
                    po, k + 1)

\* drawing.py VerticalTreeDrawer._calculate_coordinates:
\* sf = (width - 150) / max_dist if max_dist > 0 else 0; root_x = -width/2 + 50;
\* coordinates = (root_x + dist_to_root * sf, y_coord)
LegacyVerticalLayout(t, st, d) ==
    LET a1 == DistPass(t, d.attrs, 1)
        max_dist == MaxDistToRoot(a1, t.n)
        sf1 == LegacyScaleFactor(R(st.width - 150), max_dist)
        rx == RAdd(RDiv(R(-st.width), R(2)), R(50))
        a2 == LegacyLeafSlotPass(t, st, a1)
        a3 == LegacySlotCenterPass(t, a2, PostOrder(t, 1), 1)
    IN  [attrs |-> [n \in Nodes(t) |->
                        [a3[n] EXCEPT !["coordinates"] =
                            <<RAdd(rx, RMul(a3[n]["dist_to_root"], sf1)), a3[n]["y_coord"]>>]],
         sf |-> sf1, root_x |-> rx, total_tree_depth |-> max_dist,
         layout_calculated |-> d.layout_calculated]


\* ------------------------------------------------------------ the drawer
VARIABLES
    tree,               \* self.t: the tree handed to the constructor
    style,              \* self.style
    impl,               \* the drawer class
    phase,              \* "new" before the constructor, "ready" after it,
                        \* "failed" when the constructor raised
    attrs,              \* the derived attributes attached to the nodes
    sf,                 \* self.sf
    root_x,             \* self.root_x (vertical drawer)
    total_tree_depth,   \* self.total_tree_depth
    layout_calculated,  \* self._layout_calculated
    drawing,            \* the drawing's command list, one batch per call
    last_max_width,     \* max_width argument of the latest layout pass
    call                \* the latest overlay call: its arguments and outcome

vars == <<tree, style, impl, phase, attrs, sf, root_x, total_tree_depth,
          layout_calculated, drawing, last_max_width, call>>

layoutVars == <<attrs, sf, root_x, total_tree_depth, layout_calculated>>

Drawer ==
    [attrs |-> attrs, sf |-> sf, root_x |-> root_x,
     total_tree_depth |-> total_tree_depth, layout_calculated |-> layout_calculated]

Install(d) ==
    /\ attrs' = d.attrs
    /\ sf' = d.sf
    /\ root_x' = d.root_x
    /\ total_tree_depth' = d.total_tree_depth
    /\ layout_calculated' = d.layout_calculated

\* self._calculate_layout() / self._calculate_layout(max_width) of the drawer class
CalculateLayout(im, t, st, d, mw) ==
    IF im = "radial" THEN RadialLayout(t, st, d)
    ELSE IF im = "vertical" THEN VerticalLayout(t, st, d, mw)
    ELSE IF im = "legacy_vertical" THEN LegacyVerticalLayout(t, st, d)
    ELSE LegacyRadialLayout(t, st, d)

\* BaseDrawer._pre_flight_check: lay out again when the flag is down
PreFlightCheck(im, t, st, d) ==
    IF ~d.layout_calculated THEN CalculateLayout(im, t, st, d, <<>>) ELSE d

\* a re-layout that refreshes the scale factor only
DrawRelayoutScaleOnly(t, st, d, rm) ==
    IF rm > 0
    THEN [d EXCEPT !.sf = VerticalLayout(t, st, d, <<st.width - rm>>).sf]
    ELSE d

\* a re-layout that refreshes the scale factor and the leaves only
DrawRelayoutLeavesOnly(t, st, d, rm) ==
    IF rm > 0
    THEN LET e == VerticalLayout(t, st, d, <<st.width - rm>>)
         IN  [e EXCEPT !.attrs = [n \in Nodes(t) |->
                                    IF IsLeaf(t, n) THEN e.attrs[n] ELSE d.attrs[n]]]
    ELSE d

\* VerticalTreeDrawer.draw: if right_margin > 0:
\*     self._calculate_layout(max_width=self.style.width - right_margin)
DrawRelayout(t, st, d, rm) ==
    IF rm > 0 THEN VerticalLayout(t, st, d, <<st.width - rm>>) ELSE d

\* no overlay has been called yet
NoCall == [op |-> "none"]

\* BaseDrawer.__init__: total_tree_depth = 0, sf = 1.0, the white background
Init ==
    /\ impl \in Impls
    /\ tree \in Trees
    /\ style \in {s \in Styles : impl = "vertical" => s.degrees = 360}
    /\ phase = "new"
    /\ attrs = [n \in Nodes(tree) |-> NoAttrs]
    /\ sf = R(1)
    /\ root_x = Unset
    /\ total_tree_depth = R(0)
    /\ layout_calculated = FALSE
    /\ drawing = <<>>
    /\ last_max_width = <<>>
    /\ call = NoCall

Cmd(k, n) == [k |-> k, n |-> n]

\* RadialTreeDrawer.__init__ / VerticalTreeDrawer.__init__:
\* super().__init__(tree, style); self._calculate_layout()
Construct ==
    /\ phase = "new"
    /\ LET d == CalculateLayout(impl, tree, style, Drawer, <<>>)
       IN  /\ Install(d)
           /\ phase' = IF impl = "legacy_radial" /\ ~d.ok THEN "failed" ELSE "ready"
    /\ drawing' = <<<<Cmd("background", 0)>>>>
    /\ last_max_width' = <<>>
    /\ UNCHANGED <<tree, style, impl, call>>

\* an explicit call of _calculate_layout / _calculate_coordinates
Relayout(mw) ==
    /\ phase = "ready"
    /\ impl # "vertical" => mw = <<>>
    /\ Install(CalculateLayout(impl, tree, style, Drawer, mw))
    /\ last_max_width' = mw
    /\ UNCHANGED <<tree, style, impl, phase, drawing, call>>

\* tests_drawings.py: drawer._layout_calculated = False
InvalidateLayout ==
    /\ phase = "ready"
    /\ impl \in {"radial", "vertical"}
    /\ layout_calculated
    /\ layout_calculated' = FALSE
    /\ UNCHANGED <<tree, style, impl, phase, attrs, sf, root_x, total_tree_depth,
                   drawing, last_max_width, call>>

\* ---------------------------------------------------------------- overlays
RAbsDiff(x, y) == IF RLt(x, y) THEN RSub(y, x) ELSE RSub(x, y)

\* RadialTreeDrawer.draw, the commands of one node
RadialNodeCmds(t, st, a, n) ==
    (IF IsRoot(t, n) THEN <<>>
     ELSE IF RLt(<<1, 1000>>, RAbsDiff(a[t.up[n]]["angle"], a[n]["angle"]))
          THEN <<Cmd("arc", n), Cmd("line", n)>>
          ELSE <<Cmd("line", n)>>)
    \o (IF (IF IsLeaf(t, n) THEN st.leaf_r ELSE st.node_r) > 0
        THEN <<Cmd("circle", n)>> ELSE <<>>)

\* VerticalTreeDrawer.draw, the commands of one node
VerticalNodeCmds(t, st, a, n) ==
    (IF IsRoot(t, n) THEN <<Cmd("stub", n)>> ELSE <<Cmd("line", n)>>)
    \o (IF ~IsLeaf(t, n)
        THEN <<Cmd("connector", n)>>
             \o (IF st.node_r > 0 THEN <<Cmd("circle", n)>> ELSE <<>>)
        ELSE IF st.leaf_r > 0 THEN <<Cmd("circle", n)>> ELSE <<>>)

\* for n in self.t.traverse("postorder"): ... self.drawing.append(...)
RECURSIVE SkeletonCmds(_, _, _, _, _, _)
SkeletonCmds(im, t, st, a, po, k) ==
    IF k > Len(po) THEN <<>>
    ELSE (IF im = "radial" THEN RadialNodeCmds(t, st, a, po[k])
          ELSE VerticalNodeCmds(t, st, a, po[k]))
         \o SkeletonCmds(im, t, st, a, po, k + 1)

CanCall == phase = "ready" /\ impl \in {"radial", "vertical"} /\ Len(drawing) <= MaxCalls

\* the max_width of the layout pass a call ran last, if it ran one
WidthAfter(rm) ==
    IF rm > 0 THEN <<style.width - rm>>
    ELSE IF ~layout_calculated THEN <<>> ELSE last_max_width

\* RadialTreeDrawer.draw() / VerticalTreeDrawer.draw(right_margin)
Draw(rm) ==
    /\ CanCall
    /\ impl = "radial" => rm = 0
    /\ LET d1 == PreFlightCheck(impl, tree, style, Drawer)
           d2 == IF impl = "vertical" THEN DrawRelayout(tree, style, d1, rm) ELSE d1
       IN  /\ Install(d2)
           /\ drawing' = Append(drawing,
                    SkeletonCmds(impl, tree, style, d2.attrs, PostOrder(tree, 1), 1))
    /\ last_max_width' = WidthAfter(rm)
    /\ UNCHANGED <<tree, style, impl, phase, call>>

\* highlight_clade(node): one wedge (radial) or one rectangle (vertical)
HighlightClade(n) ==
    /\ CanCall
    /\ n \in {1, tree.n}
    /\ Install(PreFlightCheck(impl, tree, style, Drawer))
    /\ drawing' = Append(drawing,
            <<Cmd(IF impl = "radial" THEN "wedge" ELSE "rectangle", n)>>)
    /\ last_max_width' = WidthAfter(0)
    /\ UNCHANGED <<tree, style, impl, phase, call>>

\* add_leaf_shapes(leaves): one shape per listed leaf
AddLeafShapes ==
    /\ CanCall
    /\ Install(PreFlightCheck(impl, tree, style, Drawer))
    /\ drawing' = Append(drawing,
            [i \in 1 .. Len(Leaves(tree)) |-> Cmd("shape", Leaves(tree)[i])])
    /\ last_max_width' = WidthAfter(0)
    /\ UNCHANGED <<tree, style, impl, phase, call>>

Next ==
    \/ Construct
    \/ \E mw \in MaxWidths : Relayout(mw)
    \/ InvalidateLayout
    \/ \E rm \in RightMargins : Draw(rm)
    \/ \E n \in 1 .. MaxNodes + 1 : HighlightClade(n)
    \/ AddLeafShapes

Spec == Init /\ [][Next]_vars


\* ============================================ overlays along the branches
\* the largest tree the overlay calls are tried on
MaxOverlayNodes == 3

OverlayTrees ==
    UNION {{[n |-> n, up |-> up, dist |-> dist] :
                up \in Shapes(n), dist \in [1 .. n -> Dists]} : n \in 1 .. MaxOverlayNodes}

\* TreeStyle with its rotation, the offset _rot_ang adds to polar angles
OverlayStyles ==
    {[width |-> 400, height |-> 400, radius |-> 120, degrees |-> 360, margin |-> 20,
      leaf_r |-> 5, node_r |-> 2, rotation |-> r] : r \in {0, 90}}

\* the drawer classes of drawing/ and of drawing.py
OverlayImpls == {"radial", "vertical", "legacy_radial", "legacy_vertical"}

OverlayInit ==
    /\ impl \in OverlayImpls
    /\ tree \in OverlayTrees
    /\ style \in {s \in OverlayStyles : impl # "radial" => s.rotation = 0}
    /\ phase = "new"
    /\ attrs = [n \in Nodes(tree) |-> NoAttrs]
    /\ sf = R(1)
    /\ root_x = Unset
    /\ total_tree_depth = R(0)
    /\ layout_calculated = FALSE
    /\ drawing = <<>>
    /\ last_max_width = <<>>
    /\ call = NoCall

\* add_title(text, position): tx, ty = 0, 0; "top": ty = -h/2 + pad; ...
TitlePositions == {"top", "left"}
TitleAt(st, position) ==
    IF position = "top" THEN <<R(0), RAdd(RDiv(R(-st.height), R(2)), R(40))>>
    ELSE <<RAdd(RDiv(R(-st.width), R(2)), R(40)), R(0)>>

\* add_title: appends the text, reads the style only
AddTitle ==
    /\ CanCall
    /\ \E position \in TitlePositions :
          /\ drawing' = Append(drawing,
                  <<[k |-> "text", n |-> 0, at |-> TitleAt(style, position)]>>)
          /\ call' = [op |-> "add_title", position |-> position, raised |-> FALSE]
    /\ UNCHANGED <<tree, style, impl, phase, attrs, sf, root_x, total_tree_depth,
                   layout_calculated, last_max_width>>

\* a dict value that is None (a key that is missing is Unset)
PyNone == <<0, 0, 0>>
IsNumber(v) == v # Unset /\ v # PyNone

\* an interpolation that leaves the fraction as the caller gave it
ClampNone(w) == w

\* t = max(0.0, min(1.0, float(where)))
Clamp01(w) == IF RLt(w, R(0)) THEN R(0) ELSE IF RLt(R(1), w) THEN R(1) ELSE w

\* an interpolation that runs from the child towards the parent
LerpFromChild(p, c, f) == RAdd(c, RMul(RSub(p, c), f))

\* x_p + (x_c - x_p) * t
Lerp(p, c, f) == RAdd(p, RMul(RSub(c, p), f))

\* RadialTreeDrawer._rot_ang: float(ang_deg) + float(self.style.rotation)
RotAng(st, ang) == RAdd(ang, R(st.rotation))

\* VerticalTreeDrawer._edge_point(child, where) -> (x, y, angle of the edge);
\* on the root it returns the root's own position
VerticalEdgePoint(t, a, n, where) ==
    IF IsRoot(t, n)
    THEN [x |-> a[n]["coordinates"][1], y |-> a[n]["coordinates"][2], ang |-> R(0)]
    ELSE LET x_p == a[t.up[n]]["coordinates"][1]
             x_c == a[n]["coordinates"][1]
         IN  [x |-> Lerp(x_p, x_c, Clamp01(where)),
              y |-> a[n]["coordinates"][2],
              ang |-> IF RLe(x_p, x_c) THEN R(0) ELSE R(180)]

\* RadialTreeDrawer._edge_point(child, where): the point is
\* polar_to_cartesian(ang, r); r and theta are the polar position handed to
\* that conversion, ang the third component of the result
RadialEdgePoint(t, st, a, n, where) ==
    IF IsRoot(t, n)
    THEN [r |-> a[n]["rad"], theta |-> RotAng(st, a[n]["angle"]),
          ang |-> RotAng(st, a[n]["angle"])]
    ELSE [r |-> Lerp(a[t.up[n]]["rad"], a[n]["rad"], Clamp01(where)),
          theta |-> RotAng(st, a[n]["angle"]),
          ang |-> RotAng(st, a[n]["angle"])]

\* self._edge_point of the drawer class
EdgePoint(im, t, st, a, n, where) ==
    IF im = "radial" THEN RadialEdgePoint(t, st, a, n, where)
    ELSE VerticalEdgePoint(t, a, n, where)

\* the "where" values of a branch-shape spec: key missing, None, or a number
WhereArgs == {Unset, PyNone, R(-1), R(0), <<1, 4>>, R(1), R(2)}
\* a record without a node name (key missing or None), and a name no node has
NoBranch == -1
NoName == 0
\* the specs handed to add_branch_shapes: no branch, a name no node has, or
\* a node's name with each "where"
BranchSpecs(t) ==
    {[branch |-> b, where |-> Unset] : b \in {NoBranch, NoName}}
    \cup {[branch |-> b, where |-> w] : b \in 1 .. t.n, w \in WhereArgs}

\* add_branch_shapes, one spec: nothing when the branch is missing, when the
\* name does not resolve (self.t & br raises) or when float(where) raises,
\* all inside try / except: continue; where = s.get("where", default_where)
BranchShapeCmds(im, t, st, a, specs, i) ==
    LET s == specs[i]
    IN  IF s.branch = NoBranch \/ s.branch = NoName \/ s.where = PyNone THEN <<>>
        ELSE <<[k |-> "shape", n |-> s.branch, i |-> i,
                at |-> EdgePoint(im, t, st, a, s.branch,
                                 IF s.where = Unset THEN <<1, 2>> ELSE s.where)]>>

\* for s in specs: ... self._draw_shape_at(...)
RECURSIVE BranchShapesFrom(_, _, _, _, _, _)
BranchShapesFrom(im, t, st, a, specs, i) ==
    IF i > Len(specs) THEN <<>>
    ELSE BranchShapeCmds(im, t, st, a, specs, i)
         \o BranchShapesFrom(im, t, st, a, specs, i + 1)

\* RadialTreeDrawer.add_branch_shapes / VerticalTreeDrawer.add_branch_shapes
AddBranchShapes(specs) ==
    /\ CanCall
    /\ LET d == PreFlightCheck(impl, tree, style, Drawer)
       IN  /\ Install(d)
           /\ drawing' = Append(drawing,
                    BranchShapesFrom(impl, tree, style, d.attrs, specs, 1))
    /\ call' = [op |-> "add_branch_shapes", specs |-> specs, raised |-> FALSE]
    /\ last_max_width' = WidthAfter(0)
    /\ UNCHANGED <<tree, style, impl, phase>>

\* ZombiParser._annotate_time_from_origin: 0.0 on the root, else the parent's
\* time_from_origin plus the node's own dist
RECURSIVE TimeFromOrigin(_, _)
TimeFromOrigin(t, n) ==
    IF IsRoot(t, n) THEN R(0) ELSE RAdd(TimeFromOrigin(t, t.up[n]), R(t.dist[n]))

\* abs(t1 - t0) > 1e-12: the times of the model are multiples of 1/2, so the
\* difference passes the threshold exactly when it is not 0
AboveEpsilon(x) == x # R(0)

\* a time-to-fraction map that measures the time from the origin, not from
\* the parent
WhereFromTimeAbsolute(t, n, time) ==
    IF IsRoot(t, n) THEN R(0)
    ELSE LET t0 == TimeFromOrigin(t, t.up[n])
             t1 == TimeFromOrigin(t, n)
             denom == IF AboveEpsilon(RSub(t1, t0)) THEN RSub(t1, t0) ELSE R(1)
         IN  Clamp01(RDiv(time, denom))

\* BaseDrawer._where_from_time(node, t):
\* denom = (t1 - t0) if abs(t1 - t0) > 1e-12 else 1.0; w = (t - t0) / denom,
\* cut to [0, 1]; 0.0 on the root
WhereFromTime(t, n, time) ==
    IF IsRoot(t, n) THEN R(0)
    ELSE LET t0 == TimeFromOrigin(t, t.up[n])
             t1 == TimeFromOrigin(t, n)
             denom == IF AboveEpsilon(RSub(t1, t0)) THEN RSub(t1, t0) ELSE R(1)
             w == RDiv(RSub(time, t0), denom)
         IN  IF RLt(w, R(0)) THEN R(0) ELSE IF RLt(R(1), w) THEN R(1) ELSE w

\* the "time" values of a record: key missing, None, or a number
TimeArgs == {Unset, PyNone, R(0), <<1, 2>>, R(1), <<3, 2>>, R(3)}

\* the specs handed to BaseDrawer.add_branch_shapes: as above, and a node's
\* name with each "time", with where = None and with both where and time
TimedSpecs(t) ==
    {[branch |-> b, where |-> Unset, time |-> Unset] : b \in {NoBranch, NoName}}
    \cup {[branch |-> b, where |-> Unset, time |-> tm] : b \in 1 .. t.n, tm \in TimeArgs}
    \cup {[branch |-> b, where |-> PyNone, time |-> <<1, 2>>] : b \in 1 .. t.n}
    \cup {[branch |-> b, where |-> <<1, 4>>, time |-> R(1)] : b \in 1 .. t.n}

\* BaseDrawer.add_branch_shapes, the fraction of one spec: "where" when it is
\* there and not None, else the fraction of "time" when that is there and not
\* None and both nodes carry time_from_origin, else default_where
BaseWhere(t, s) ==
    IF IsNumber(s.where) THEN s.where
    ELSE IF IsNumber(s.time) THEN WhereFromTime(t, s.branch, s.time)
    ELSE <<1, 2>>

\* BaseDrawer.add_branch_shapes, one spec: nothing without a branch, for a
\* name that does not resolve and for the root (no parent edge)
BaseBranchShapeCmds(im, t, st, a, specs, i) ==
    LET s == specs[i]
    IN  IF s.branch = NoBranch \/ s.branch = NoName THEN <<>>
        ELSE IF IsRoot(t, s.branch) THEN <<>>
        ELSE <<[k |-> "shape", n |-> s.branch, i |-> i, where |-> BaseWhere(t, s),
                at |-> EdgePoint(im, t, st, a, s.branch, BaseWhere(t, s))]>>

RECURSIVE BaseBranchShapesFrom(_, _, _, _, _, _)
BaseBranchShapesFrom(im, t, st, a, specs, i) ==
    IF i > Len(specs) THEN <<>>
    ELSE BaseBranchShapeCmds(im, t, st, a, specs, i)
         \o BaseBranchShapesFrom(im, t, st, a, specs, i + 1)

\* BaseDrawer.add_branch_shapes(drawer, specs) on a vertical drawer whose tree
\* the Zombi parser annotated; self._edge_point is the drawer's own
BaseAddBranchShapes(specs) ==
    /\ CanCall
    /\ impl = "vertical"
    /\ drawing' = Append(drawing,
            BaseBranchShapesFrom(impl, tree, style, attrs, specs, 1))
    /\ call' = [op |-> "base_add_branch_shapes", specs |-> specs, raised |-> FALSE]
    /\ UNCHANGED <<tree, style, impl, phase, attrs, sf, root_x, total_tree_depth,
                   layout_calculated, last_max_width>>

OverlayNext ==
    \/ Construct
    \/ InvalidateLayout
    \/ AddTitle
    \/ \E s \in BranchSpecs(tree) : AddBranchShapes(<<s>>)
    \/ \E s \in TimedSpecs(tree) : BaseAddBranchShapes(<<s>>)

OverlaySpec == OverlayInit /\ [][OverlayNext]_vars


\* ================================================================ transfers
\* a tree with or without the time_from_origin annotation of the Zombi parser
TimedTrees ==
    {[n |-> t.n, up |-> t.up, dist |-> t.dist, timed |-> b] :
        t \in OverlayTrees, b \in BOOLEAN}

TransferInit ==
    /\ impl \in {"radial", "vertical"}
    /\ tree \in TimedTrees
    /\ style \in {s \in OverlayStyles : s.rotation = 0}
    /\ phase = "new"
    /\ attrs = [n \in Nodes(tree) |-> NoAttrs]
    /\ sf = R(1)
    /\ root_x = Unset
    /\ total_tree_depth = R(0)
    /\ layout_calculated = FALSE
    /\ drawing = <<>>
    /\ last_max_width = <<>>
    /\ call = NoCall

\* float(getattr(node, "time_from_origin", 0.0))
TimeAttr(t, n) == IF t.timed THEN TimeFromOrigin(t, n) ELSE R(0)

\* plot_transfers.get_where(node, t_ev): 0.0 on the root; on an edge longer
\* than 1e-12 the quotient cut to [0, 1], where float(None) raises (ok is
\* FALSE); 0.5 on any other edge, t_ev unread
GetWhere(t, n, t_ev) ==
    IF IsRoot(t, n) THEN [w |-> R(0), ok |-> TRUE]
    ELSE LET t0 == TimeAttr(t, t.up[n])
             t1 == TimeAttr(t, n)
         IN  IF ~AboveEpsilon(RSub(t1, t0)) THEN [w |-> <<1, 2>>, ok |-> TRUE]
             ELSE IF t_ev = PyNone THEN [w |-> Unset, ok |-> FALSE]
             ELSE [w |-> Clamp01(RDiv(RSub(t_ev, t0), RSub(t1, t0))), ok |-> TRUE]

\* plot_transfers(mode): "midpoint" (the default) or "time"
TransferModes == {"midpoint", "time"}
\* filter_below of the calls
FilterBelow == <<1, 2>>

\* the record of the smoke test: from a leaf to another node, freq 0.5
GoodTransfer(t) ==
    [from |-> t.n, to |-> IF t.n >= 2 THEN 2 ELSE 1, freq |-> <<1, 2>>, time |-> Unset]

\* the records tried: the good one, and it with one name no node has, with
\* a freq under the threshold, starting on the root, and with each time
TransferRecords(t) ==
    LET g == GoodTransfer(t)
    IN  {g, [g EXCEPT !.from = NoName], [g EXCEPT !.to = NoName],
         [g EXCEPT !.freq = <<1, 4>>], [g EXCEPT !.from = 1]}
        \cup {[g EXCEPT !.time = tm] : tm \in {PyNone, <<1, 2>>, <<3, 2>>}}
        \cup {[g EXCEPT !.from = 1, !.time = PyNone]}

\* the fractions of the two ends of one record:
\* if mode == "time" and "time" in tr: get_where(src, tr["time"]), then
\* get_where(dst, tr["time"]); else 0.5 for both
TransferEnds(t, tr, mode) ==
    IF mode = "time" /\ tr.time # Unset
    THEN LET ws == GetWhere(t, tr.from, tr.time)
             we == IF ws.ok THEN GetWhere(t, tr.to, tr.time) ELSE ws
         IN  [ws |-> ws.w, we |-> we.w, ok |-> ws.ok /\ we.ok]
    ELSE [ws |-> <<1, 2>>, we |-> <<1, 2>>, ok |-> TRUE]

\* plot_transfers, the loop from record i on: a record under filter_below or
\* with a name that is not in name2node is passed over; the others append
\* the gradient (use_gradient=True) and the path; an exception ends the loop
RECURSIVE TransfersFrom(_, _, _, _, _, _, _)
TransfersFrom(im, t, st, a, trs, mode, i) ==
    IF i > Len(trs) THEN [cmds |-> <<>>, raised |-> FALSE]
    ELSE LET tr == trs[i]
         IN  IF RLt(tr.freq, FilterBelow) \/ tr.from = NoName \/ tr.to = NoName
             THEN TransfersFrom(im, t, st, a, trs, mode, i + 1)
             ELSE LET e == TransferEnds(t, tr, mode)
                      rest == TransfersFrom(im, t, st, a, trs, mode, i + 1)
                  IN  IF ~e.ok THEN [cmds |-> <<>>, raised |-> TRUE]
                      ELSE [cmds |->
                              <<[k |-> "gradient", n |-> tr.from, i |-> i],
                                [k |-> "curve", n |-> tr.from, i |-> i,
                                 ws |-> e.ws, we |-> e.we,
                                 start |-> EdgePoint(im, t, st, a, tr.from, e.ws),
                                 end |-> EdgePoint(im, t, st, a, tr.to, e.we)]>>
                              \o rest.cmds,
                            raised |-> rest.raised]

\* RadialTreeDrawer.plot_transfers / VerticalTreeDrawer.plot_transfers
PlotTransfers(trs, mode) ==
    /\ CanCall
    /\ LET d == PreFlightCheck(impl, tree, style, Drawer)
           r == TransfersFrom(impl, tree, style, d.attrs, trs, mode, 1)
       IN  /\ Install(d)
           /\ drawing' = Append(drawing, r.cmds)
           /\ call' = [op |-> "plot_transfers", transfers |-> trs, mode |-> mode,
                       raised |-> r.raised]
    /\ last_max_width' = WidthAfter(0)
    /\ UNCHANGED <<tree, style, impl, phase>>

TransferNext ==
    \/ Construct
    \/ InvalidateLayout
    \/ \E mode \in TransferModes :
          \/ PlotTransfers(<<GoodTransfer(tree)>>, mode)
          \/ \E tr \in TransferRecords(tree) :
                PlotTransfers(<<tr, GoodTransfer(tree)>>, mode)

TransferSpec == TransferInit /\ [][TransferNext]_vars


\* ======================================================= events and rings
\* a call on a drawer of drawing.py
CanCallLegacy ==
    phase = "ready" /\ impl \in {"legacy_radial", "legacy_vertical"}
        /\ Len(drawing) <= MaxCalls

\* mark_events(type_filter): None or an event type
TypeFilters == {"None", "D"}

\* an event no filter drops, on the last node, without a time
GoodEvent(t) == [type |-> "D", node |-> t.n, time |-> PyNone]

\* the events tried: the good one, and it with another type, with a name no
\* node has, on the root, on the first child, and with a time
EventRecords(t) ==
    LET g == GoodEvent(t)
    IN  {g, [g EXCEPT !.type = "L"], [g EXCEPT !.node = NoName], [g EXCEPT !.node = 1],
         [g EXCEPT !.node = IF t.n >= 2 THEN 2 ELSE 1]}
        \cup {[g EXCEPT !.time = tm] : tm \in {<<1, 2>>, <<3, 2>>}}

\* mark_events, the position of one event. VerticalTreeDrawer: y is the
\* node's, x = time when there is one, else the mean of the parent's (on the
\* root: the node's own) and the node's x. RadialTreeDrawer: the same lines
\* read node.coordinates = (angle, r), and x = self.time_to_x(time) names a
\* method the class does not have (ok is FALSE)
EventPoint(im, t, a, ev) ==
    LET n == ev.node
        start == IF IsRoot(t, n) THEN a[n]["coordinates"][1]
                 ELSE a[t.up[n]]["coordinates"][1]
        mid == RDiv(RAdd(start, a[n]["coordinates"][1]), R(2))
    IN  IF ev.time # PyNone
        THEN [x |-> ev.time, y |-> a[n]["coordinates"][2], ok |-> im = "legacy_vertical"]
        ELSE [x |-> mid, y |-> a[n]["coordinates"][2], ok |-> TRUE]

\* mark_events, the loop from event i on: an event of another type than the
\* filter or on a name that is not in the tree is passed over
RECURSIVE EventsFrom(_, _, _, _, _, _)
EventsFrom(im, t, a, evs, type_filter, i) ==
    IF i > Len(evs) THEN [cmds |-> <<>>, raised |-> FALSE]
    ELSE LET ev == evs[i]
         IN  IF (type_filter # "None" /\ ev.type # type_filter) \/ ev.node = NoName
             THEN EventsFrom(im, t, a, evs, type_filter, i + 1)
             ELSE LET pt == EventPoint(im, t, a, ev)
                      rest == EventsFrom(im, t, a, evs, type_filter, i + 1)
                  IN  IF ~pt.ok THEN [cmds |-> <<>>, raised |-> TRUE]
                      ELSE [cmds |-> <<[k |-> "marker", n |-> ev.node, i |-> i,
                                        x |-> pt.x, y |-> pt.y]>> \o rest.cmds,
                            raised |-> rest.raised]

\* drawing.py RadialTreeDrawer.mark_events / VerticalTreeDrawer.mark_events
MarkEvents(evs, type_filter) ==
    /\ CanCallLegacy
    /\ LET r == EventsFrom(impl, tree, attrs, evs, type_filter, 1)
       IN  /\ drawing' = Append(drawing, r.cmds)
           /\ call' = [op |-> "mark_events", events |-> evs,
                       type_filter |-> type_filter, raised |-> r.raised]
    /\ UNCHANGED <<tree, style, impl, phase, attrs, sf, root_x, total_tree_depth,
                   layout_calculated, last_max_width>>

\* the leaves a value mapping names
Mappings(t) == SUBSET {n \in Nodes(t) : IsLeaf(t, n)}

\* add_heatmap, the cells: for l in self.t.get_leaves(): val = values.get(l.name);
\* fill = lerp_color(...) if val is not None else "white"; a cell for every leaf
RECURSIVE HeatmapCells(_, _, _)
HeatmapCells(lv, mapping, i) ==
    IF i > Len(lv) THEN <<>>
    ELSE <<[k |-> "cell", n |-> lv[i],
            fill |-> IF lv[i] \in mapping THEN "scale" ELSE "white"]>>
         \o HeatmapCells(lv, mapping, i + 1)

\* RadialTreeDrawer.add_heatmap / VerticalTreeDrawer.add_heatmap(values):
\* if not vals: return
AddHeatmap(mapping) ==
    /\ CanCall
    /\ drawing' = Append(drawing,
            IF mapping = {} THEN <<>> ELSE HeatmapCells(Leaves(tree), mapping, 1))
    /\ call' = [op |-> "add_heatmap", mapping |-> mapping, raised |-> FALSE]
    /\ UNCHANGED <<tree, style, impl, phase, attrs, sf, root_x, total_tree_depth,
                   layout_calculated, last_max_width>>

\* add_ring, the segments: if l.name not in mapping: continue
RECURSIVE RingSegments(_, _, _)
RingSegments(lv, mapping, i) ==
    IF i > Len(lv) THEN <<>>
    ELSE (IF lv[i] \in mapping
          THEN <<[k |-> "cell", n |-> lv[i], fill |-> "scale"]>> ELSE <<>>)
         \o RingSegments(lv, mapping, i + 1)

\* drawing.py RadialTreeDrawer.add_ring(mapping)
AddRing(mapping) ==
    /\ CanCallLegacy
    /\ impl = "legacy_radial"
    /\ drawing' = Append(drawing, RingSegments(Leaves(tree), mapping, 1))
    /\ call' = [op |-> "add_ring", mapping |-> mapping, raised |-> FALSE]
    /\ UNCHANGED <<tree, style, impl, phase, attrs, sf, root_x, total_tree_depth,
                   layout_calculated, last_max_width>>

EventNext ==
    \/ Construct
    \/ InvalidateLayout
    \/ \E f \in TypeFilters :
          \/ MarkEvents(<<GoodEvent(tree)>>, f)
          \/ \E ev \in EventRecords(tree) : MarkEvents(<<ev, GoodEvent(tree)>>, f)
    \/ \E m \in Mappings(tree) : AddHeatmap(m)
    \/ \E m \in Mappings(tree) : AddRing(m)

EventSpec == OverlayInit /\ [][EventNext]_vars


\* ------------------------------------------- trees with negative edge lengths
\* trees a caller can hand to a drawer in which some node has dist < 0
MalformedTrees ==
    UNION {{[n |-> n, up |-> up, dist |-> dist] :
                up \in Shapes(n),
                dist \in {f \in [1 .. n -> -1 .. MaxDist] : \E i \in 1 .. n : f[i] < 0}} :
           n \in 1 .. MaxOverlayNodes}

MalformedInit ==
    /\ impl \in {"radial", "vertical"}
    /\ tree \in MalformedTrees
    /\ style \in {s \in Styles : impl = "vertical" => s.degrees = 360}
    /\ phase = "new"
    /\ attrs = [n \in Nodes(tree) |-> NoAttrs]
    /\ sf = R(1)
    /\ root_x = Unset
    /\ total_tree_depth = R(0)
    /\ layout_calculated = FALSE
    /\ drawing = <<>>
    /\ last_max_width = <<>>
    /\ call = NoCall

MalformedNext ==
    \/ Construct
    \/ \E mw \in MaxWidths : Relayout(mw)
    \/ InvalidateLayout

MalformedSpec == MalformedInit /\ [][MalformedNext]_vars


\* ZombiParser.to_branch_shapes, the "where" of the spec of one event row:
\* no spec on the root (parent is None: continue); else
\* denom = (t1 - t0) if abs(t1 - t0) > 1e-12 else 1.0; (tt - t0) / denom cut
\* to [0, 1]
ToBranchShapesWhere(t, n, tt) ==
    IF IsRoot(t, n) THEN Unset
    ELSE LET t0 == TimeFromOrigin(t, t.up[n])
             t1 == TimeFromOrigin(t, n)
             denom == IF AboveEpsilon(RSub(t1, t0)) THEN RSub(t1, t0) ELSE R(1)
             where == RDiv(RSub(tt, t0), denom)
         IN  IF RLt(where, R(0)) THEN R(0) ELSE IF RLt(R(1), where) THEN R(1) ELSE where


\* --------------------------------------------- the two vertical drawers
\* VerticalTreeDrawer of drawing/vertical.py and of drawing.py on the trees
\* of the layout checks
SlotInit ==
    /\ impl \in {"vertical", "legacy_vertical"}
    /\ tree \in Trees
    /\ style \in {s \in Styles : s.degrees = 360}
    /\ phase = "new"
    /\ attrs = [n \in Nodes(tree) |-> NoAttrs]
    /\ sf = R(1)
    /\ root_x = Unset
    /\ total_tree_depth = R(0)
    /\ layout_calculated = FALSE
    /\ drawing = <<>>
    /\ last_max_width = <<>>
    /\ call = NoCall

SlotNext ==
    \/ Construct
    \/ \E mw \in MaxWidths : Relayout(mw)
    \/ InvalidateLayout

SlotSpec == SlotInit /\ [][SlotNext]_vars


\* ------------------------------------------------- the explicit origin node
\* an origin whose child loses its edge length
AddOriginDroppingStem(t) ==
    IF t.dist[1] <= 0 THEN [t EXCEPT !.dist[1] = 0]
    ELSE [n |-> t.n + 1,
          up |-> <<0>> \o [i \in 1 .. t.n |-> t.up[i] + 1],
          dist |-> <<0, 0>> \o SubSeq(t.dist, 2, t.n)]

\* add_origin_if_root_has_dist: stem = float(tree.dist or 0.0);
\* stem <= 0: tree.dist = 0.0, the tree itself; else a new root with dist 0.0
\* whose only child is the old root with dist = stem
AddOriginIfRootHasDist(t) ==
    IF t.dist[1] <= 0 THEN [t EXCEPT !.dist[1] = 0]
    ELSE [n |-> t.n + 1,
          up |-> <<0>> \o [i \in 1 .. t.n |-> t.up[i] + 1],
          dist |-> <<0>> \o t.dist]

OriginInit ==
    /\ impl \in {"radial", "vertical"}
    /\ tree \in OverlayTrees
    /\ style \in {s \in Styles : s.degrees = 360}
    /\ phase = "new"
    /\ attrs = [n \in Nodes(tree) |-> NoAttrs]
    /\ sf = R(1)
    /\ root_x = Unset
    /\ total_tree_depth = R(0)
    /\ layout_calculated = FALSE
    /\ drawing = <<>>
    /\ last_max_width = <<>>
    /\ call = NoCall

\* tree = add_origin_if_root_has_dist(tree), before a drawer is built on it,
\* once or twice
AddOrigin ==
    /\ phase = "new"
    /\ IF call.op = "none" THEN TRUE ELSE call.times = 1
    /\ tree' = AddOriginIfRootHasDist(tree)
    /\ attrs' = [n \in Nodes(tree') |-> NoAttrs]
    /\ call' = [op |-> "add_origin",
                original |-> IF call.op = "none" THEN tree ELSE call.original,
                before |-> tree,
                times |-> IF call.op = "none" THEN 1 ELSE 2]
    /\ UNCHANGED <<style, impl, phase, sf, root_x, total_tree_depth,
                   layout_calculated, drawing, last_max_width>>

OriginNext ==
    \/ AddOrigin
    \/ Construct
    \/ \E mw \in MaxWidths : Relayout(mw)

OriginSpec == OriginInit /\ [][OriginNext]_vars


\* ------------------------------------------------------------ marker shapes
\* the shapes _draw_shape_at knows, and the marker names a caller passes
KnownShapes == {"circle", "square", "triangle"}
MarkerShapes == KnownShapes \cup {"star"}

\* _draw_shape_at: self.d.append(...) of one element, or
\* raise ValueError(f"Unknown shape: ...")
DrawShapeAt(shape, cmd) ==
    IF shape \in KnownShapes THEN [cmds |-> <<cmd>>, raised |-> FALSE]
    ELSE [cmds |-> <<>>, raised |-> TRUE]

\* a canvas that puts the elements of a call in front of the earlier ones
EmitFirst(dr, cmds) == <<cmds>> \o dr

\* self.d.append(...): the elements of a call go after those already drawn
Emit(dr, cmds) == Append(dr, cmds)

\* BaseDrawer.add_branch_shapes with a "shape" per spec: the ValueError of
\* _draw_shape_at leaves the loop, the elements of earlier specs stay
RECURSIVE ShapedBranchShapesFrom(_, _, _, _, _, _, _)
ShapedBranchShapesFrom(im, t, st, a, specs, shapes, i) ==
    IF i > Len(specs) THEN [cmds |-> <<>>, raised |-> FALSE]
    ELSE LET c == BaseBranchShapeCmds(im, t, st, a, specs, i)
             rest == ShapedBranchShapesFrom(im, t, st, a, specs, shapes, i + 1)
         IN  IF c = <<>> THEN rest
             ELSE LET r == DrawShapeAt(shapes[i], c[1])
                  IN  IF r.raised THEN r
                      ELSE [cmds |-> r.cmds \o rest.cmds, raised |-> rest.raised]

\* the specs of a call: each names a node and sits at the middle of its edge
ShapedSpecs(t) ==
    {<<[branch |-> b1, where |-> <<1, 2>>, time |-> Unset],
       [branch |-> b2, where |-> <<1, 2>>, time |-> Unset]>> :
        b1 \in {t.n}, b2 \in {1, t.n}}

\* BaseDrawer.add_branch_shapes(drawer, specs) with specs that carry "shape"
ShapedBranchShapes(specs, shapes) ==
    /\ CanCall
    /\ impl = "vertical"
    /\ LET r == ShapedBranchShapesFrom(impl, tree, style, attrs, specs, shapes, 1)
       IN  /\ drawing' = Emit(drawing, r.cmds)
           /\ call' = [op |-> "shaped_branch_shapes", specs |-> specs,
                       shapes |-> shapes, raised |-> r.raised]
    /\ UNCHANGED <<tree, style, impl, phase, attrs, sf, root_x, total_tree_depth,
                   layout_calculated, last_max_width>>

\* add_leaf_shapes(leaves, shape): for item in leaves: try: ...
\* self._draw_shape_at(...) except: continue
RECURSIVE LeafShapesFrom(_, _, _)
LeafShapesFrom(lv, shape, i) ==
    IF i > Len(lv) THEN <<>>
    ELSE DrawShapeAt(shape, Cmd("shape", lv[i])).cmds \o LeafShapesFrom(lv, shape, i + 1)

\* RadialTreeDrawer.add_leaf_shapes / VerticalTreeDrawer.add_leaf_shapes of
\* all leaves with one shape name
AddLeafShapesAs(shape) ==
    /\ CanCall
    /\ Install(PreFlightCheck(impl, tree, style, Drawer))
    /\ drawing' = Emit(drawing, LeafShapesFrom(Leaves(tree), shape, 1))
    /\ call' = [op |-> "add_leaf_shapes", shape |-> shape, raised |-> FALSE]
    /\ last_max_width' = WidthAfter(0)
    /\ UNCHANGED <<tree, style, impl, phase>>

\* overlay calls of every kind of outcome: complete, skipping, raising
AppendNext ==
    \/ TransferNext
    \/ \E specs \in ShapedSpecs(tree), shapes \in [1 .. 2 -> MarkerShapes] :
          ShapedBranchShapes(specs, shapes)
    \/ \E shape \in MarkerShapes : AddLeafShapesAs(shape)

AppendSpec == TransferInit /\ [][AppendNext]_vars


\* ------------------------------------------------------- colours (utils.py)
\* a colour string: "#rrggbb" or "#rgb" as its hex digits, or a name
HexColor(ds) == [kind |-> "hex", digits |-> ds, name |-> ""]
NamedColor(nm) == [kind |-> "name", digits |-> <<>>, name |-> nm]
ColorStrings ==
    {HexColor(ds) : ds \in {<<0, 0, 0, 0, 0, 0>>, <<15, 15, 15, 15, 15, 15>>,
                            <<15, 15, 8, 0, 0, 1>>, <<0, 0, 0>>, <<15, 8, 1>>}}
    \cup {NamedColor(nm) : nm \in {"red", "gray", "invalid"}}

\* common_names.get(color_str, (0, 0, 0)), the names used here
CommonNames(nm) ==
    IF nm = "red" THEN <<255, 0, 0>>
    ELSE IF nm = "gray" THEN <<128, 128, 128>>
    ELSE <<0, 0, 0>>

\* to_rgb: "#rgb" doubles each digit; int(h[i:i+2], 16) for i in (0, 2, 4)
ToRgb(c) ==
    IF c.kind = "hex"
    THEN LET h == IF Len(c.digits) = 3
                  THEN <<c.digits[1], c.digits[1], c.digits[2], c.digits[2],
                         c.digits[3], c.digits[3]>>
                  ELSE c.digits
         IN  <<16 * h[1] + h[2], 16 * h[3] + h[4], 16 * h[5] + h[6]>>
    ELSE CommonNames(c.name)

\* int(x) of a float: truncation towards zero
Trunc(x) == IF x[1] >= 0 THEN x[1] \div x[2] ELSE -((-x[1]) \div x[2])
\* int(max(0, min(255, x)))
Channel(x) ==
    Trunc(IF RLt(x, R(0)) THEN R(0) ELSE IF RLt(R(255), x) THEN R(255) ELSE x)
\* a to_hex that rounds each channel to the nearest integer
ToHexRounded(rgb) ==
    LET ch(x) == LET y == IF RLt(x, R(0)) THEN R(0)
                          ELSE IF RLt(R(255), x) THEN R(255) ELSE x
                 IN  (2 * y[1] + y[2]) \div (2 * y[2])
    IN  <<ch(rgb[1]) \div 16, ch(rgb[1]) % 16,
          ch(rgb[2]) \div 16, ch(rgb[2]) % 16,
          ch(rgb[3]) \div 16, ch(rgb[3]) % 16>>

\* to_hex: "#{:02x}{:02x}{:02x}".format(...), as the six digits it prints
ToHex(rgb) ==
    <<Channel(rgb[1]) \div 16, Channel(rgb[1]) % 16,
      Channel(rgb[2]) \div 16, Channel(rgb[2]) % 16,
      Channel(rgb[3]) \div 16, Channel(rgb[3]) % 16>>

\* lerp_color: t = max(0.0, min(1.0, t));
\* to_hex(tuple(c1[i] + (c2[i] - c1[i]) * t for i in range(3)))
LerpColor(low_hex, high_hex, t) ==
    LET t1 == RMax(R(0), IF RLt(R(1), t) THEN R(1) ELSE t)
        c1 == ToRgb(low_hex)
        c2 == ToRgb(high_hex)
    IN  ToHex([i \in 1 .. 3 |-> RAdd(R(c1[i]), RMul(R(c2[i] - c1[i]), t1))])

\* the t arguments of lerp_color, all exact as floats
LerpArgs == {R(-1), R(0), <<1, 8>>, <<1, 4>>, <<1, 2>>, <<3, 4>>, R(1), R(2)}

\* no drawer is involved: the arguments of one lerp_color call are chosen
LerpInit ==
    /\ impl = "radial"
    /\ tree = [n |-> 1, up |-> <<0>>, dist |-> <<0>>]
    /\ style \in {s \in Styles : s.degrees = 360}
    /\ phase = "new"
    /\ attrs = [n \in Nodes(tree) |-> NoAttrs]
    /\ sf = R(1)
    /\ root_x = Unset
    /\ total_tree_depth = R(0)
    /\ layout_calculated = FALSE
    /\ drawing = <<>>
    /\ last_max_width = <<>>
    /\ call \in {[op |-> "lerp_args", low |-> lo, high |-> hi, t |-> t] :
                    lo \in ColorStrings, hi \in ColorStrings, t \in LerpArgs}

\* lerp_color(low, high, t)
LerpColorCall ==
    /\ call.op = "lerp_args"
    /\ call' = [op |-> "lerp_color", low |-> call.low, high |-> call.high, t |-> call.t,
                result |-> LerpColor(call.low, call.high, call.t)]
    /\ UNCHANGED <<tree, style, impl, phase, attrs, sf, root_x, total_tree_depth,
                   layout_calculated, drawing, last_max_width>>

LerpNext == LerpColorCall

LerpSpec == LerpInit /\ [][LerpNext]_vars


\* ================================================================ claims
Ready == phase = "ready"
Current == impl \in {"radial", "vertical"}
SpreadField == IF impl = "vertical" THEN "y_coord" ELSE "angle"
Internal(n) == ~IsLeaf(tree, n)
NonNegative == \A n \in Nodes(tree) : tree.dist[n] >= 0
SpreadSum(s) == RSum([k \in 1 .. Len(s) |-> attrs[s[k]][SpreadField]], Len(s))

\* C1: after layout every internal node's spread value (angle, y_coord) is the
\* arithmetic mean of the spread values of its direct children.
C1_MeanOfChildren ==
    (Ready /\ Current) =>
        \A n \in Nodes(tree) :
            Internal(n) =>
                RMul(attrs[n][SpreadField], R(Len(Children(tree, n))))
                    = SpreadSum(Children(tree, n))

\* a laid-out tree on which the mean over the children of a node differs from
\* the mean over its descendant leaves
C1_Witness ==
    /\ Ready /\ Current
    /\ \E n \in Nodes(tree) :
          /\ Internal(n)
          /\ RMul(attrs[n][SpreadField], R(Len(LeavesUnder(tree, n))))
                # SpreadSum(LeavesUnder(tree, n))

\* C2: after radial layout the i-th leaf (i = 0 .. leafCount - 1) has angle
\* i * span / leafCount; with two or more leaves no two leaves share an angle,
\* and on the full circle the first and last leaf do not coincide modulo 360.
C2_LeafAngles ==
    (Ready /\ impl \in {"radial", "legacy_radial"}) =>
        LET lv == Leaves(tree)
            k == Len(lv)
        IN  /\ \A i \in 1 .. k :
                   RMul(attrs[lv[i]]["angle"], R(k)) = R((i - 1) * style.degrees)
            /\ \A i, j \in 1 .. k :
                   i # j => attrs[lv[i]]["angle"] # attrs[lv[j]]["angle"]
            /\ (style.degrees = 360 /\ k >= 2) =>
                   RDiv(RSub(attrs[lv[k]]["angle"], attrs[lv[1]]["angle"]), R(360))[2] # 1

C2_Witness ==
    /\ Ready /\ impl = "radial" /\ style.degrees = 360
    /\ Len(Leaves(tree)) >= 3
    /\ attrs[Leaves(tree)[3]]["angle"] = RDiv(R(720), R(Len(Leaves(tree))))

\* C3: after layout the root's cumulative distance is its own edge length and
\* every other node's is its parent's plus its own edge length; with
\* non-negative edge lengths a node is never closer to the root than its
\* parent, and is at the same distance only when its edge length is 0.
C3_CumulativeDistance ==
    (Ready /\ Current) =>
        /\ \A n \in Nodes(tree) :
              attrs[n]["dist_to_root"] =
                  IF IsRoot(tree, n) THEN R(tree.dist[n])
                  ELSE RAdd(attrs[tree.up[n]]["dist_to_root"], R(tree.dist[n]))
        /\ NonNegative =>
              \A n \in Nodes(tree) :
                  ~IsRoot(tree, n) =>
                      /\ RLe(attrs[tree.up[n]]["dist_to_root"], attrs[n]["dist_to_root"])
                      /\ attrs[tree.up[n]]["dist_to_root"] = attrs[n]["dist_to_root"]
                            => tree.dist[n] = 0

C3_Witness ==
    /\ Ready /\ Current
    /\ tree.dist[1] > 0
    /\ \E n \in Nodes(tree) :
          /\ ~IsRoot(tree, n) /\ ~IsRoot(tree, tree.up[n])
          /\ tree.dist[n] > 0 /\ tree.dist[tree.up[n]] > 0
          /\ attrs[n]["dist_to_root"] = R(3)


\* the depth coordinate of a node, measured from the root origin
Depth(n) ==
    IF impl = "vertical" THEN RSub(attrs[n]["coordinates"][1], root_x)
    ELSE IF impl = "radial" THEN attrs[n]["rad"]
    ELSE attrs[n]["coordinates"][2]
\* the drawable extent of the latest layout pass
Extent ==
    IF impl = "vertical" THEN R(TargetWidth(style, last_max_width) - style.margin * 2)
    ELSE R(style.radius)
\* the largest cumulative distance on the laid-out tree (0 at least)
MaxCumulative ==
    LET ds == {attrs[n]["dist_to_root"] : n \in Nodes(tree)} \cup {R(0)}
    IN  CHOOSE m \in ds : \A x \in ds : RLe(x, m)

\* C4: the scale factor is drawableExtent / maxCumulativeDistance when
\* maxCumulativeDistance > 0 and exactly 1 when it is 0; layout never divides
\* by zero.
C4_ScaleFactor ==
    Ready =>
        /\ sf # DivError
        /\ RLt(R(0), MaxCumulative) => RMul(sf, MaxCumulative) = Extent
        /\ MaxCumulative = R(0) => sf = R(1)

\* C4 on the drawers of drawing/radial.py and drawing/vertical.py alone
C4_ScaleFactorCurrent == Current => C4_ScaleFactor

\* C5: after any sequence of layout runs every node's depth coordinate is its
\* cumulative distance times the current scale factor: rad = dist_to_root * sf
\* (radial), x = root_x + dist_to_root * sf (vertical).
C5_DepthCoordinate ==
    (Ready /\ Current) =>
        \A n \in Nodes(tree) :
            IF impl = "radial"
            THEN attrs[n]["rad"] = RMul(attrs[n]["dist_to_root"], sf)
            ELSE attrs[n]["coordinates"][1]
                    = RAdd(root_x, RMul(attrs[n]["dist_to_root"], sf))

\* a vertical tree with internal nodes below the root origin, drawn with a
\* right margin
C5_Witness ==
    /\ Ready /\ impl = "vertical"
    /\ Len(drawing) = 2 /\ last_max_width = <<300>>
    /\ \E n \in Nodes(tree) : Internal(n) /\ RLt(R(0), attrs[n]["dist_to_root"])
    /\ sf # R(1)

\* C6 as stated: on a tree with non-negative edge lengths every depth
\* coordinate is at most drawableExtent and the deepest leaf's is exactly
\* drawableExtent.
C6_ScaleBoundAsStated ==
    (Ready /\ Current /\ NonNegative) =>
        /\ \A n \in Nodes(tree) : RLe(Depth(n), Extent)
        /\ \E n \in Nodes(tree) :
              /\ IsLeaf(tree, n)
              /\ attrs[n]["dist_to_root"] = MaxCumulative
              /\ Depth(n) = Extent

\* C6 amended: on a tree with non-negative edge lengths and a positive
\* drawable extent every depth coordinate is at most drawableExtent; when
\* maxCumulativeDistance > 0 the deepest leaf's is exactly drawableExtent, and
\* when it is 0 every depth coordinate is 0.  Radial with zero stem: the root
\* has radius 0.
C6_ScaleBound ==
    (Ready /\ Current /\ NonNegative /\ RLt(R(0), Extent)) =>
        /\ \A n \in Nodes(tree) : RLe(Depth(n), Extent)
        /\ RLt(R(0), MaxCumulative) =>
              \E n \in Nodes(tree) :
                  /\ IsLeaf(tree, n)
                  /\ attrs[n]["dist_to_root"] = MaxCumulative
                  /\ Depth(n) = Extent
        /\ MaxCumulative = R(0) => \A n \in Nodes(tree) : Depth(n) = R(0)
        /\ (impl = "radial" /\ tree.dist[1] = 0) => attrs[1]["rad"] = R(0)

\* a tree whose leaves lie at different depths, the deepest one on the extent
C6_Witness ==
    /\ Ready /\ Current /\ NonNegative
    /\ \E n, m \in Nodes(tree) :
          /\ IsLeaf(tree, n) /\ IsLeaf(tree, m)
          /\ Depth(n) = Extent
          /\ RLt(R(0), Depth(m)) /\ RLt(Depth(m), Extent)

\* C7: layout is idempotent: running the pass again with the same arguments
\* leaves every derived field and the scale factor as they are, and the
\* result does not depend on the fields a previous pass left behind.
C7_Idempotent ==
    (Ready /\ Current) =>
        LET again == CalculateLayout(impl, tree, style, Drawer, last_max_width)
            fresh == CalculateLayout(impl, tree, style,
                        [Drawer EXCEPT !.attrs = [n \in Nodes(tree) |-> NoAttrs]],
                        last_max_width)
        IN  /\ again.attrs = attrs /\ again.sf = sf
            /\ again.total_tree_depth = total_tree_depth
            /\ impl = "vertical" => again.root_x = root_x
            /\ fresh.attrs = attrs /\ fresh.sf = sf

\* a tree with a stem, laid out at least twice (the overlay found the flag
\* down and ran the pass again)
C7_Witness ==
    /\ Ready /\ Current
    /\ tree.dist[1] > 0 /\ tree.n >= 3
    /\ Len(drawing) = 2 /\ layout_calculated
    /\ drawing[2][1].k \in {"wedge", "rectangle"}

\* C8: a vertical re-layout with a reduced width recomputes every node and
\* rescales all nodes alike: the ratio of the depth coordinates of any two
\* nodes is the same before and after, and repeating it changes nothing.
C8_RelayoutRescales ==
    [][(Ready /\ impl = "vertical") =>
         /\ \A n, m \in Nodes(tree) :
               RMul(Depth(n), RSub(attrs'[m]["coordinates"][1], root_x'))
                 = RMul(Depth(m), RSub(attrs'[n]["coordinates"][1], root_x'))
         /\ \A n \in Nodes(tree) :
               /\ attrs'[n]["coordinates"][1]
                     = RAdd(root_x', RMul(attrs'[n]["dist_to_root"], sf'))
               /\ attrs'[n]["coordinates"][2] = attrs'[n]["y_coord"]
         /\ last_max_width' = last_max_width =>
               (attrs' = attrs /\ sf' = sf /\ root_x' = root_x)]_vars

\* a vertical tree re-laid with the reduced width, two nodes at different
\* non-zero depths
C8_Witness ==
    /\ Ready /\ impl = "vertical" /\ last_max_width = <<300>>
    /\ \E n, m \in Nodes(tree) :
          /\ RLt(R(0), Depth(n)) /\ RLt(Depth(n), Depth(m))
          /\ Depth(m) = R(260)
          /\ Internal(n)

\* C9 as stated: no overlay call changes a node's derived attributes, the
\* scale factor or the root origin.
C9_OverlaysKeepLayout ==
    [][(Ready /\ Len(drawing') > Len(drawing)) =>
          (attrs' = attrs /\ sf' = sf /\ root_x' = root_x)]_vars

\* C10: once the constructor has returned, and so at every overlay call, every
\* node carries the derived attributes of its projection.
C10_LayoutComplete ==
    ((Ready \/ Len(drawing) > 0) /\ Current) =>
        \A n \in Nodes(tree) :
            IF impl = "radial"
            THEN HasAttr(attrs, n, "rad") /\ HasAttr(attrs, n, "angle")
            ELSE Len(attrs[n]["coordinates"]) = 2

\* just after construction of a drawer on a tree with internal nodes
C10_Witness ==
    /\ Ready /\ Current
    /\ drawing = <<<<Cmd("background", 0)>>>>
    /\ \E n \in Nodes(tree) : Internal(n) /\ ~IsRoot(tree, n)

\* C11: a public drawing operation called while _layout_calculated is False
\* (the test calls add_title) re-runs the layout first, so the flag is True
\* after the call; the flag is True after every completed layout pass.
C11_PreFlightRelayout ==
    [][/\ AddTitle => layout_calculated'
       /\ (Current /\ Construct) => layout_calculated']_vars

\* C11 on the layout passes alone: the constructor's pass raises the flag
C11_FlagAfterLayout ==
    [][(Current /\ Construct) => layout_calculated']_vars

\* the commands of the latest call
LastBatch == drawing[Len(drawing)]
\* the laid-out position of a node, as the drawer class keeps it
ParentOf(n) == tree.up[n]
XOf(n) == attrs[n]["coordinates"][1]
YOf(n) == attrs[n]["coordinates"][2]
RadOf(n) == attrs[n]["rad"]
ThetaOf(n) == RAdd(attrs[n]["angle"], R(style.rotation))
\* (1 - f) * p + f * c
Between(p, c, f) == RAdd(RMul(RSub(R(1), f), p), RMul(f, c))
\* the point lies on the incoming edge of n at fraction f: on the horizontal
\* leg at the node's own y (vertical), on the radial segment at the node's
\* own angle plus the rotation (radial)
OnEdge(at, n, f) ==
    IF impl = "vertical"
    THEN at.x = Between(XOf(ParentOf(n)), XOf(n), f) /\ at.y = YOf(n)
    ELSE at.r = Between(RadOf(ParentOf(n)), RadOf(n), f) /\ at.theta = ThetaOf(n)
\* the elbow corner (vertical) / the start of the radial segment (radial)
AtElbow(at, n) ==
    IF impl = "vertical"
    THEN at.x = XOf(ParentOf(n)) /\ at.y = YOf(n)
    ELSE at.r = RadOf(ParentOf(n)) /\ at.theta = ThetaOf(n)
\* the node's own position
AtNode(at, n) ==
    IF impl = "vertical"
    THEN at.x = XOf(n) /\ at.y = YOf(n)
    ELSE at.r = RadOf(n) /\ at.theta = ThetaOf(n)
\* spec i of the latest add_branch_shapes call names a node with a parent and
\* carries a number as its fraction
EdgeSpec(i) ==
    /\ call.specs[i].branch >= 1
    /\ ~IsRoot(tree, call.specs[i].branch)
    /\ IsNumber(call.specs[i].where)
\* the shape the call drew for spec i sits at a point satisfying P
ShapeAt(i, P(_, _)) ==
    \E j \in 1 .. Len(LastBatch) :
        /\ LastBatch[j].i = i
        /\ LastBatch[j].n = call.specs[i].branch
        /\ P(LastBatch[j].at, call.specs[i].branch)

\* C12: for every node with a parent and every fraction f in [0,1] the edge
\* interpolator returns the point whose depth coordinate is the linear
\* interpolation between the parent's and the node's and whose spread
\* coordinate is the node's own; f = 0 is the elbow corner (start of the radial
\* segment), f = 1 the node's own position.
C12_EdgeInterpolation ==
    call.op = "add_branch_shapes" =>
        \A i \in 1 .. Len(call.specs) :
            LET f == call.specs[i].where
                OnEdgeAtF(at, n) == OnEdge(at, n, f)
            IN  (EdgeSpec(i) /\ RLe(R(0), f) /\ RLe(f, R(1))) =>
                    /\ ShapeAt(i, OnEdgeAtF)
                    /\ f = R(0) => ShapeAt(i, AtElbow)
                    /\ f = R(1) => ShapeAt(i, AtNode)

\* a shape a quarter of the way along an edge of positive length whose parent
\* sits at another spread than the node
C12_Witness ==
    /\ call.op = "add_branch_shapes"
    /\ EdgeSpec(1)
    /\ call.specs[1].where = <<1, 4>>
    /\ LET n == call.specs[1].branch
       IN  /\ tree.dist[n] > 0
           /\ attrs[n][SpreadField] # attrs[ParentOf(n)][SpreadField]
           /\ Len(LastBatch) = 1
           /\ ~AtElbow(LastBatch[1].at, n) /\ ~AtNode(LastBatch[1].at, n)

\* C13: edge interpolation on the root signals an EdgeNotFoundError and
\* returns no point, so no overlay places anything for a record naming the root.
C13_RootEdgeRaises ==
    call.op = "add_branch_shapes" =>
        \A j \in 1 .. Len(LastBatch) : ~IsRoot(tree, LastBatch[j].n)

\* C14: a fraction outside [0,1] is clamped, not rejected: f < 0 gives the
\* point of f = 0, f > 1 the point of f = 1, and the call does not raise.
C14_FractionClamped ==
    call.op = "add_branch_shapes" =>
        /\ ~call.raised
        /\ \A i \in 1 .. Len(call.specs) :
              LET f == call.specs[i].where
              IN  EdgeSpec(i) =>
                    /\ RLt(f, R(0)) => ShapeAt(i, AtElbow)
                    /\ RLt(R(1), f) => ShapeAt(i, AtNode)

\* a shape asked for beyond the end of an edge of positive length
C14_Witness ==
    /\ call.op = "add_branch_shapes"
    /\ EdgeSpec(1)
    /\ call.specs[1].where = R(2)
    /\ tree.dist[call.specs[1].branch] > 0
    /\ ShapeAt(1, AtNode)

\* the cumulative time of a node: the edge lengths on its path below the root
RECURSIVE CumTime(_)
CumTime(n) == IF IsRoot(tree, n) THEN R(0) ELSE RAdd(CumTime(ParentOf(n)), R(tree.dist[n]))
\* spec i of the latest BaseDrawer.add_branch_shapes call names a node with a
\* parent and is placed by its time
TimeSpec(i) ==
    /\ call.specs[i].branch >= 1
    /\ ~IsRoot(tree, call.specs[i].branch)
    /\ ~IsNumber(call.specs[i].where)
    /\ IsNumber(call.specs[i].time)
\* the fraction the call used for spec i satisfies P
FractionOf(i, P(_)) ==
    \E j \in 1 .. Len(LastBatch) :
        /\ LastBatch[j].i = i
        /\ LastBatch[j].n = call.specs[i].branch
        /\ P(LastBatch[j].where)

\* C15: fractionFromTime(node, t) of a node with a parent is
\* clamp((t - parentTime) / (nodeTime - parentTime), 0, 1), always within
\* [0,1]; on an edge of near-zero length the division is guarded and the
\* result is the fallback 0 or the fixed constant (0.5), whatever t is.
C15_FractionFromTime ==
    call.op = "base_add_branch_shapes" =>
        \A i \in 1 .. Len(call.specs) :
            LET n == call.specs[i].branch
                tm == call.specs[i].time
                t0 == CumTime(ParentOf(n))
                t1 == CumTime(n)
                q == RDiv(RSub(tm, t0), RSub(t1, t0))
                InRange(w) == RLe(R(0), w) /\ RLe(w, R(1))
                Clamped(w) == w = (IF RLt(q, R(0)) THEN R(0)
                                   ELSE IF RLt(R(1), q) THEN R(1) ELSE q)
                Fallback(w) == w = R(0) \/ w = <<1, 2>>
            IN  TimeSpec(i) =>
                    /\ FractionOf(i, InRange)
                    /\ t1 # t0 => FractionOf(i, Clamped)
                    /\ t1 = t0 => FractionOf(i, Fallback)

\* C15 without its last part: the fraction is within [0,1] and is the clamped
\* quotient on every edge of positive length
C15_FractionOnPositiveEdges ==
    call.op = "base_add_branch_shapes" =>
        \A i \in 1 .. Len(call.specs) :
            LET n == call.specs[i].branch
                tm == call.specs[i].time
                t0 == CumTime(ParentOf(n))
                t1 == CumTime(n)
                q == RDiv(RSub(tm, t0), RSub(t1, t0))
                InRange(w) == RLe(R(0), w) /\ RLe(w, R(1))
                Clamped(w) == w = (IF RLt(q, R(0)) THEN R(0)
                                   ELSE IF RLt(R(1), q) THEN R(1) ELSE q)
            IN  TimeSpec(i) =>
                    /\ FractionOf(i, InRange)
                    /\ t1 # t0 => FractionOf(i, Clamped)

\* C16: for a node with an incoming edge of positive length and a time t
\* between the parent's and the node's cumulative time, the fraction of t
\* mapped back through parentTime + fraction * (nodeTime - parentTime) is t.
C16_RoundTrip ==
    call.op = "base_add_branch_shapes" =>
        \A i \in 1 .. Len(call.specs) :
            LET n == call.specs[i].branch
                tm == call.specs[i].time
                t0 == CumTime(ParentOf(n))
                t1 == CumTime(n)
                Recovers(w) == RAdd(t0, RMul(w, RSub(t1, t0))) = tm
            IN  (TimeSpec(i) /\ RLt(t0, t1) /\ RLe(t0, tm) /\ RLe(tm, t1)) =>
                    FractionOf(i, Recovers)

\* a time strictly inside an edge that does not start at the origin
C16_Witness ==
    /\ call.op = "base_add_branch_shapes"
    /\ TimeSpec(1)
    /\ call.specs[1].time = <<3, 2>>
    /\ CumTime(ParentOf(call.specs[1].branch)) = R(1)
    /\ CumTime(call.specs[1].branch) = R(2)
    /\ Len(LastBatch) = 1
    /\ LastBatch[1].where = <<1, 2>>

\* record i of the latest plot_transfers call passes the threshold and names
\* two nodes of the tree
Plottable(i) ==
    /\ ~RLt(call.transfers[i].freq, FilterBelow)
    /\ call.transfers[i].from \in Nodes(tree)
    /\ call.transfers[i].to \in Nodes(tree)
\* the curves the latest call drew for record i
CurvesOf(i) ==
    {j \in 1 .. Len(LastBatch) : LastBatch[j].k = "curve" /\ LastBatch[j].i = i}

\* C17: plot_transfers emits exactly one curve per record whose freq is at
\* least the threshold and whose names both resolve; any other record is
\* skipped without raising and the remaining records are still processed.
C17_OneCurvePerRecord ==
    call.op = "plot_transfers" =>
        /\ ~call.raised
        /\ \A i \in 1 .. Len(call.transfers) :
              Cardinality(CurvesOf(i)) = IF Plottable(i) THEN 1 ELSE 0

\* C17 for the calls in the default mode (mode = "midpoint")
C17_OneCurvePerRecordMidpoint ==
    (call.op = "plot_transfers" /\ call.mode = "midpoint") => C17_OneCurvePerRecord

\* the fraction of a time on the incoming edge of n
FractionOnEdge(n, tm) ==
    LET q == RDiv(RSub(tm, CumTime(ParentOf(n))), RSub(CumTime(n), CumTime(ParentOf(n))))
    IN  IF RLt(q, R(0)) THEN R(0) ELSE IF RLt(R(1), q) THEN R(1) ELSE q
\* n has an incoming edge of positive length on an annotated tree
TimedEdge(n) == tree.timed /\ ~IsRoot(tree, n) /\ tree.dist[n] > 0

\* C18: in a time-aware call a record with a time has each end placed at the
\* fraction of that time on its own edge; a record without a time (key
\* missing or None) has both ends at the branch midpoint 0.5, and the call
\* does not raise.
C18_TransferEnds ==
    (call.op = "plot_transfers" /\ call.mode = "time") =>
        /\ ~call.raised
        /\ \A i \in 1 .. Len(call.transfers) :
              LET tr == call.transfers[i]
              IN  Plottable(i) =>
                    \E j \in CurvesOf(i) :
                        IF IsNumber(tr.time)
                        THEN /\ TimedEdge(tr.from) =>
                                    LastBatch[j].ws = FractionOnEdge(tr.from, tr.time)
                             /\ TimedEdge(tr.to) =>
                                    LastBatch[j].we = FractionOnEdge(tr.to, tr.time)
                        ELSE LastBatch[j].ws = <<1, 2>> /\ LastBatch[j].we = <<1, 2>>

\* C18 for the records whose time is a number or whose key is missing
C18_TransferEndsNoNone ==
    (call.op = "plot_transfers"
        /\ \A i \in 1 .. Len(call.transfers) : call.transfers[i].time # PyNone)
    => C18_TransferEnds

\* event i of the latest mark_events call passes the type filter and names a
\* node of the tree
Marked(i) ==
    /\ call.type_filter # "None" => call.events[i].type = call.type_filter
    /\ call.events[i].node \in Nodes(tree)
\* the markers the latest call drew for event i
MarkersOf(i) == {j \in 1 .. Len(LastBatch) : LastBatch[j].i = i}
\* the fraction of a time between the cumulative distances of the ends of the
\* incoming edge of n
FractionOfDistance(n, tm) ==
    LET d0 == attrs[ParentOf(n)]["dist_to_root"]
        d1 == attrs[n]["dist_to_root"]
        q == RDiv(RSub(tm, d0), RSub(d1, d0))
    IN  IF RLt(q, R(0)) THEN R(0) ELSE IF RLt(R(1), q) THEN R(1) ELSE q

\* C19: markEvents emits exactly one marker per record that matches the type
\* filter and whose node resolves, none for the others; on a node with an
\* incoming edge the marker sits at the node's spread, at the time-based
\* fraction between the parent's and the node's depth coordinate when the
\* record has a time, at the branch midpoint when it has none.
C19_MarkEvents ==
    call.op = "mark_events" =>
        /\ ~call.raised
        /\ \A i \in 1 .. Len(call.events) :
              LET ev == call.events[i]
                  n == ev.node
                  f == IF ev.time = PyNone THEN <<1, 2>> ELSE FractionOfDistance(n, ev.time)
              IN  /\ Cardinality(MarkersOf(i)) = IF Marked(i) THEN 1 ELSE 0
                  /\ (Marked(i) /\ impl = "legacy_vertical" /\ ~IsRoot(tree, n)
                            /\ tree.dist[n] > 0) =>
                        \A j \in MarkersOf(i) :
                            /\ LastBatch[j].x = Between(XOf(ParentOf(n)), XOf(n), f)
                            /\ LastBatch[j].y = YOf(n)

\* C19 for the records without a time
C19_MarkEventsNoTime ==
    (call.op = "mark_events"
        /\ \A i \in 1 .. Len(call.events) : call.events[i].time = PyNone)
    => C19_MarkEvents

\* C20: the ring / heatmap overlay emits one filled segment per leaf that has
\* a value in the mapping and none for a leaf that is missing from it, so
\* the number of segments is the number of leaves the mapping names.
C20_SegmentsPerMappedLeaf ==
    call.op \in {"add_heatmap", "add_ring"} =>
        /\ {LastBatch[j].n : j \in 1 .. Len(LastBatch)} = call.mapping
        /\ Len(LastBatch) = Cardinality(call.mapping)

\* C20 on add_ring of drawing.py alone
C20_RingSegments == call.op = "add_ring" => C20_SegmentsPerMappedLeaf

\* the filled regions highlight_clade emitted, as (batch, position) pairs
Regions ==
    {<<b, j>> \in (1 .. Len(drawing)) \X (1 .. MaxNodes * 4) :
        j <= Len(drawing[b]) /\ drawing[b][j].k \in {"wedge", "rectangle"}}

\* C21: highlight_clade on a leaf is skipped (no command is emitted for it);
\* on an internal node it emits exactly one filled region.
C21_HighlightSkipsLeaves ==
    \A r \in Regions :
        /\ ~IsLeaf(tree, drawing[r[1]][r[2]].n)
        /\ Len(drawing[r[1]]) = 1

\* C21 for internal nodes alone: a highlight call emits exactly one region
C21_OneRegionPerCall ==
    \A r \in Regions : Len(drawing[r[1]]) = 1

\* the top margin of the vertical canvas: -height / 2 + margin
TopMargin == RAdd(RDiv(R(-style.height), R(2)), R(style.margin))
\* the single node sits at spread 0 (radial) / on the top margin (vertical)
SingleNodeSpread ==
    IF impl = "radial" THEN attrs[1]["angle"] = R(0)
    ELSE attrs[1]["coordinates"][2] = TopMargin

\* C22: a single-node tree lays out without raising in both projections:
\* maxCumulativeDistance is 0, the scale fallback applies, and the node sits
\* at the origin / margin (radial: radius 0, angle 0; vertical: x = root_x,
\* y = top margin).
C22_SingleNodeAsStated ==
    (Current /\ tree.n = 1) =>
        /\ phase # "failed"
        /\ Ready =>
              /\ MaxCumulative = R(0)
              /\ sf = R(1)
              /\ Depth(1) = R(0)
              /\ SingleNodeSpread

\* C22 amended: the single node is laid out without raising, at spread 0 /
\* the top margin; with root edge length 0 the maximum cumulative distance
\* is 0, the scale is the fallback 1 and the depth coordinate is 0; with a
\* root edge length s > 0 the maximum is s and the node sits at the full
\* drawable extent.
C22_SingleNode ==
    (Current /\ tree.n = 1) =>
        /\ phase # "failed"
        /\ Ready =>
              /\ sf # DivError
              /\ SingleNodeSpread
              /\ tree.dist[1] = 0 =>
                    MaxCumulative = R(0) /\ sf = R(1) /\ Depth(1) = R(0)
              /\ tree.dist[1] > 0 =>
                    MaxCumulative = R(tree.dist[1]) /\ Depth(1) = Extent

\* a laid-out vertical tree of one node without a stem
C22_Witness ==
    /\ Ready /\ impl = "vertical" /\ tree.n = 1 /\ tree.dist[1] = 0
    /\ attrs[1]["coordinates"] = <<root_x, TopMargin>>

\* C23: a nonzero root edge length (stem) is honoured by layout: the root's
\* cumulative distance is its stem, its depth coordinate is stem * scale > 0,
\* every descendant's cumulative distance is the stem plus the edge lengths
\* on its path from the root, and no step changes the tree's edge lengths.
C23_StemHonoured ==
    [][/\ tree' = tree
       /\ (phase' = "ready" /\ tree'.dist[1] > 0) =>
             /\ attrs'[1]["dist_to_root"] = R(tree.dist[1])
             /\ Depth(1)' = RMul(R(tree.dist[1]), sf')
             /\ RLt(R(0), Depth(1)')
             /\ \A n \in Nodes(tree) :
                   attrs'[n]["dist_to_root"] = RAdd(R(tree.dist[1]), CumTime(n))]_vars

\* a laid-out legacy radial tree with a stem whose root sits off the centre
C23_Witness ==
    /\ Ready /\ impl = "legacy_radial" /\ tree.n >= 3 /\ tree.dist[1] = 1
    /\ RLt(R(0), attrs[1]["coordinates"][2])
    /\ \E n \in Nodes(tree) : attrs[n]["dist_to_root"] = R(3)

\* C24: layout of a tree containing a negative edge length fails with an
\* error, and no node is left carrying derived attributes computed from it.
C24_NegativeLengthFatal ==
    (\E n \in Nodes(tree) : tree.dist[n] < 0) =>
        /\ phase # "ready"
        /\ \A n \in Nodes(tree) : attrs[n] = NoAttrs

\* what layout does with a negative edge length: it never fails, and every
\* node carries a cumulative distance that sums the negative length in
C24_NegativeLengthLaidOut ==
    /\ phase # "failed"
    /\ Ready => \A n \in Nodes(tree) :
                   attrs[n]["dist_to_root"] = RAdd(R(tree.dist[1]), CumTime(n))

\* C25: the drawing command list is append-only: across every step, an overlay
\* call that raises or skips records included, the commands present before
\* the step are an unchanged prefix of the commands after it.
C25_AppendOnly ==
    [][/\ Len(drawing') >= Len(drawing)
       /\ \A b \in 1 .. Len(drawing) : drawing'[b] = drawing[b]]_vars

\* a call that raised on an unknown shape after emitting one marker, with the
\* background still in front of it
C25_Witness ==
    /\ call.op = "shaped_branch_shapes" /\ call.raised
    /\ Len(drawing) = 2
    /\ drawing[1] = <<Cmd("background", 0)>>
    /\ Len(drawing[2]) = 1 /\ drawing[2][1].k = "shape"

\* the RGB channels a "#rrggbb" result stands for
ChannelsOf(ds) == <<16 * ds[1] + ds[2], 16 * ds[3] + ds[4], 16 * ds[5] + ds[6]>>

\* C26: lerp_color clamps t to [0, 1]: for t <= 0 the result is the low
\* colour, for t >= 1 the high colour, and in between every channel is
\* low + (high - low) * t truncated to an integer in 0 .. 255; black to
\* white at 0.5 is #7f7f7f.
C26_LerpColor ==
    call.op = "lerp_color" =>
        LET lo == ToRgb(call.low)
            hi == ToRgb(call.high)
            out == ChannelsOf(call.result)
            n == call.t[1]
            d == call.t[2]
        IN  /\ Len(call.result) = 6
            /\ \A i \in 1 .. 6 : call.result[i] \in 0 .. 15
            /\ n <= 0 => out = lo
            /\ n >= d => out = hi
            /\ (0 < n /\ n < d) =>
                  \A i \in 1 .. 3 :
                      /\ out[i] \in 0 .. 255
                      /\ out[i] * d <= lo[i] * d + (hi[i] - lo[i]) * n
                      /\ lo[i] * d + (hi[i] - lo[i]) * n < (out[i] + 1) * d
            /\ (call.low = HexColor(<<0, 0, 0, 0, 0, 0>>)
                  /\ call.high = HexColor(<<15, 15, 15, 15, 15, 15>>)
                  /\ call.t = <<1, 2>>)
                  => call.result = <<7, 15, 7, 15, 7, 15>>

\* black to white at 0.5
C26_Witness ==
    /\ call.op = "lerp_color"
    /\ call.low = HexColor(<<0, 0, 0, 0, 0, 0>>) /\ call.high = NamedColor("red")
    /\ call.t = <<1, 2>>
    /\ call.result = <<7, 15, 0, 0, 0, 0>>

\* the fraction plot_transfers used for node n at time tm is the one
\* _where_from_time gives and, off the root, the one to_branch_shapes gives
SameFraction(w, n, tm) ==
    /\ w = WhereFromTime(tree, n, tm)
    /\ ~IsRoot(tree, n) => w = ToBranchShapesWhere(tree, n, tm)

\* C27: the time-to-fraction mapping is one shared mechanism: for every node
\* and event time the fraction plot_transfers uses (get_where) is the value
\* of _where_from_time and of to_branch_shapes, on the root and on
\* zero-length edges too.
C27_SharedFraction ==
    (call.op = "plot_transfers" /\ call.mode = "time" /\ tree.timed) =>
        \A i \in 1 .. Len(call.transfers) :
            LET tr == call.transfers[i]
            IN  IsNumber(tr.time) =>
                    \A j \in CurvesOf(i) :
                        /\ SameFraction(LastBatch[j].ws, tr.from, tr.time)
                        /\ SameFraction(LastBatch[j].we, tr.to, tr.time)

\* C27 off the zero-length edges: on the root and on edges of positive
\* length the three mappings agree
C27_SharedFractionOnPositiveEdges ==
    (call.op = "plot_transfers" /\ call.mode = "time" /\ tree.timed) =>
        \A i \in 1 .. Len(call.transfers) :
            LET tr == call.transfers[i]
            IN  IsNumber(tr.time) =>
                    \A j \in CurvesOf(i) :
                        /\ (IsRoot(tree, tr.from) \/ tree.dist[tr.from] > 0)
                              => SameFraction(LastBatch[j].ws, tr.from, tr.time)
                        /\ (IsRoot(tree, tr.to) \/ tree.dist[tr.to] > 0)
                              => SameFraction(LastBatch[j].we, tr.to, tr.time)

\* the canvas margin the leaf slots keep: style.margin (drawing/vertical.py),
\* 50 (drawing.py)
SlotMargin == IF impl = "vertical" THEN R(style.margin) ELSE R(50)
SlotTop == RAdd(RDiv(R(-style.height), R(2)), SlotMargin)
SlotBottom == RSub(RDiv(R(style.height), R(2)), SlotMargin)
LeafY(i) == attrs[Leaves(tree)[i]]["y_coord"]

\* C28: vertical layout gives the leaves evenly spaced slots in traversal
\* order: leaf i sits at start_y + i * step for one step, distinct leaves get
\* distinct slots, every slot lies within the top and bottom margins, and a
\* single leaf does not divide by zero.
C28_LeafSlots ==
    (Ready /\ impl \in {"vertical", "legacy_vertical"}) =>
        LET k == Len(Leaves(tree))
            step == IF k >= 2 THEN RSub(LeafY(2), LeafY(1)) ELSE R(0)
        IN  /\ \A i \in 1 .. k :
                  /\ LeafY(i) # DivError /\ LeafY(i) # Unset
                  /\ LeafY(i) = RAdd(SlotTop, RMul(R(i - 1), step))
                  /\ RLe(SlotTop, LeafY(i)) /\ RLe(LeafY(i), SlotBottom)
            /\ \A i \in 1 .. k - 1 : RSub(LeafY(i + 1), LeafY(i)) = step
            /\ k >= 2 => RLt(R(0), step)
            /\ \A i, j \in 1 .. k : i # j => LeafY(i) # LeafY(j)

\* four leaves of the drawing.py drawer, a quarter of the drawable height apart
C28_Witness ==
    /\ Ready /\ impl = "legacy_vertical"
    /\ Len(Leaves(tree)) = 4
    /\ RSub(LeafY(4), LeafY(3)) = R(75)

\* a single leaf of the drawing/vertical.py drawer, on the top margin
C28_WitnessSingleLeaf ==
    /\ Ready /\ impl = "vertical"
    /\ Len(Leaves(tree)) = 1 /\ tree.n = 3
    /\ LeafY(1) = SlotTop

\* C29: on a tree annotated by _annotate_time_from_origin and laid out,
\* time_from_origin(n) is the layout's dist_to_root(n) for every node n, also
\* when the root carries a nonzero edge length.
C29_ClocksAgree ==
    (Ready /\ tree.timed) =>
        \A n \in Nodes(tree) : TimeAttr(tree, n) = attrs[n]["dist_to_root"]

\* the two clocks differ by the root's edge length on every node, and agree
\* when it is 0
C29_ClocksDifferByStem ==
    (Ready /\ tree.timed) =>
        \A n \in Nodes(tree) :
            attrs[n]["dist_to_root"] = RAdd(R(tree.dist[1]), TimeAttr(tree, n))

\* the cumulative distances layout computes on the tree as it was handed in
OriginalDistToRoot(n) ==
    DistPass(call.original, [m \in Nodes(call.original) |-> NoAttrs], 1)[n]["dist_to_root"]

\* C30: add_origin_if_root_has_dist keeps the cumulative distance of every
\* original node (stem > 0: a new root with edge length 0 whose only child is
\* the old root with edge length stem; stem = 0: the same tree), and a
\* second application returns its argument unchanged, without a second
\* origin.
C30_OriginKeepsDistances ==
    call.op = "add_origin" =>
        LET old == call.original
            shift == tree.n - old.n
        IN  /\ old.dist[1] > 0 =>
                  /\ shift = 1
                  /\ tree.dist[1] = 0
                  /\ Children(tree, 1) = <<2>>
                  /\ tree.dist[2] = old.dist[1]
                  /\ \A n \in Nodes(old) :
                        /\ n > 1 => tree.up[n + 1] = old.up[n] + 1
                        /\ tree.dist[n + 1] = old.dist[n]
            /\ old.dist[1] = 0 => tree = old
            /\ call.times = 2 => tree = call.before
            /\ Ready => \A n \in Nodes(old) :
                            attrs[n + shift]["dist_to_root"] = OriginalDistToRoot(n)

\* a laid-out tree that got its origin in the first of two applications
C30_Witness ==
    /\ Ready /\ call.op = "add_origin" /\ call.times = 2
    /\ call.original.n = 3 /\ call.original.dist[1] = 1
    /\ tree.n = 4
    /\ attrs[4]["dist_to_root"] = R(3)

====
